---- MODULE Spec2Model ----
(***************************************************************************)
(* Prediction-and-ranking pipeline of TradeLens:                           *)
(*   backend/app/services/ml_service.py            (inference, ensemble,   *)
(*                                                  confidence)            *)
(*   backend/app/services/recommendation_service.py (risk, filter, rank,   *)
(*                                                  select, persist)       *)
(*                                                                         *)
(* Numbers.  Python floats are modelled by exact rationals:                *)
(*   - a probability is an integer number of 1/ProbDen units;              *)
(*   - a metric (R^2, accuracy), a volatility, a sentiment and a market    *)
(*     indicator are integer hundredths;                                   *)
(*   - a confidence is a normalised fraction <<num, den>>, den > 0.        *)
(* An optional value (Python None) is the empty sequence, a present value  *)
(* v is <<v>>.                                                             *)
(***************************************************************************)
EXTENDS Integers, Sequences, FiniteSets, TLC

VARIABLES
    \* ml_service module globals (the in-process model cache)
    neural_network_model, neural_network_metadata,
    random_forest_model, random_forest_metadata,
    \* app.state.models, the secondary store filled by lifetime.startup
    app_state_models,
    \* the arguments and the outcome of the last predict_stock call
    predict_args, predict_result,
    \* the arguments and the outcome of the last _calculate_confidence_score call
    confidence_args, confidence_result,
    \* the database: stocks, stocks having market rows, the user's
    \* holding-period preference, the recommendations table
    stock_table, market_rows, user_holding_period, recommendations,
    \* generate_recommendations: position, arguments and locals
    pc, daily_target_count, market_conditions, holding_pref,
    stocks, pos, scoring, candidates, returned,
    \* wall clock
    clock,
    \* the arguments and the outcome of the last calculate_risk_level call
    risk_args, risk_result,
    \* the arguments and the outcome of the last prepare_feature_vectors call
    features_args, features_result,
    \* the arguments and the outcome of the last _generate_labels call
    labels_args, labels_result,
    \* the model storage directory (ml-models/), whether a file of it was
    \* removed or damaged after it was saved, and the (type, version) pairs
    \* save_model was called with
    model_storage, tampered, saved_versions,
    \* the arguments and the outcome of the last get_latest_model_version,
    \* load_model and initialize_models call
    latest_args, latest_result, load_args, load_result, initialize_result,
    \* what the four accessors and are_models_loaded returned when last called
    accessor_result,
    \* the number of train_models runs started so far, and the (feature
    \* vector, label) pairs the last run trained on
    training_runs, training_set,
    \* the save_model call that has written its model file and not yet its
    \* metadata file
    pending_save,
    \* the number of initialize_models calls made so far
    initialize_calls,
    \* lifetime.startup: how far the worker thread running initialize_models
    \* and the storing of the models in app.state have come
    startup_pc

cache_vars == << neural_network_model, neural_network_metadata,
                 random_forest_model, random_forest_metadata, app_state_models >>

predict_vars == << predict_args, predict_result >>

confidence_vars == << confidence_args, confidence_result >>

db_vars == << stock_table, market_rows, user_holding_period >>

run_vars == << pc, daily_target_count, market_conditions, holding_pref, stocks, pos,
               scoring, candidates, returned, clock >>

\* arguments and outcomes of direct calls of the services' functions
risk_vars == << risk_args, risk_result >>

features_vars == << features_args, features_result >>

labels_vars == << labels_args, labels_result >>

storage_vars == << model_storage, tampered, saved_versions, latest_args, latest_result, load_args,
                   load_result, initialize_result >>

\* the variables of the model life cycle: accessors, training, start-up
training_vars == << training_runs, training_set >>

save_vars == << pending_save, initialize_calls >>

lifecycle_vars == << accessor_result, training_vars, save_vars, startup_pc >>

helper_vars == << risk_vars, features_vars, labels_vars, storage_vars, lifecycle_vars >>

vars == << cache_vars, predict_vars, confidence_vars, db_vars, recommendations, run_vars,
           helper_vars >>

\* ------------------------------------------------------------------------
\* Bounds of the model
\* ------------------------------------------------------------------------
\* probabilities are multiples of 1/ProbDen
ProbDen == 4
\* largest daily_target_count tried (the smallest is -1)
MaxTarget == 3
\* most market observations of one entity in a feature batch
MaxObs == 3

\* the number of model artifacts saved in one behaviour
MaxSaves == 2

\* the number of training runs in one behaviour
MaxRuns == 2

\* the last second of the wall clock
\* calls of initialize_models in one process
MaxInits == 2

MaxSecond == 2

\* ------------------------------------------------------------------------
\* Optional values and exact fractions
\* ------------------------------------------------------------------------
None == << >>

Some(v) == << v >>

IsNone(o) == o = << >>

Get(o) == o[1]

Abs(x) == IF x < 0 THEN -x ELSE x

RECURSIVE GCD(_, _)
GCD(a, b) == IF b = 0 THEN a ELSE GCD(b, a % b)

\* the fraction n/d (d > 0) in lowest terms
Frac(n, d) == LET g == GCD(Abs(n), d) IN << n \div g, d \div g >>

FracLE(a, b) == a[1] * b[2] <= b[1] * a[2]

FracLT(a, b) == a[1] * b[2] < b[1] * a[2]

Zero == << 0, 1 >>

One == << 1, 1 >>

\* Python max(0.0, min(1.0, x)) on a fraction
Clamp01(f) == IF FracLT(f, Zero) THEN Zero ELSE IF FracLT(One, f) THEN One ELSE f

\* ------------------------------------------------------------------------
\* ml_service._calculate_confidence_score
\* ------------------------------------------------------------------------
\* metadata["metrics"]: r_squared and accuracy are optional hundredths
Metrics(r2, acc) == [r_squared |-> r2, accuracy |-> acc]

\* BaseConfidence reading the accuracy before the R^2
BaseConfidence_AccuracyFirst(metrics) ==
    IF ~IsNone(metrics.accuracy) THEN Get(metrics.accuracy)
    ELSE IF ~IsNone(metrics.r_squared) THEN Get(metrics.r_squared)
    ELSE 50

\* r_squared if not None, else metrics.get("accuracy", 0.5)
BaseConfidence(metrics) ==
    IF ~IsNone(metrics.r_squared) THEN Get(metrics.r_squared)
    ELSE IF ~IsNone(metrics.accuracy) THEN Get(metrics.accuracy)
    ELSE 50

\* 0.5 + prediction_probability * 0.5, as a fraction; p in 1/ProbDen units
ProbabilityMultiplier(p) == Frac(ProbDen + p, 2 * ProbDen)

\* base (hundredths) * multiplier, clamped to [0, 1]
CalculateConfidenceScore(metrics, p) ==
    LET base == BaseConfidence(metrics)
        mult == ProbabilityMultiplier(p)
    IN  Clamp01(Frac(base * mult[1], 100 * mult[2]))

FracAdd(a, b) == Frac(a[1] * b[2] + b[1] * a[2], a[2] * b[2])

FracMul(a, b) == Frac(a[1] * b[1], a[2] * b[2])

\* a / b for b > 0
FracDiv(a, b) == Frac(a[1] * b[2], a[2] * b[1])

\* ------------------------------------------------------------------------
\* ml_service: single-model inference and the ensemble of predict_stock
\* ------------------------------------------------------------------------
\* a probability vector over the classes 0 = hold, 1 = buy, 2 = sell
Probs == {p \in (0..ProbDen) \X (0..ProbDen) \X (0..ProbDen) : p[1] + p[2] + p[3] = ProbDen}

Max3(v) == IF v[1] >= v[2] /\ v[1] >= v[3] THEN v[1] ELSE IF v[2] >= v[3] THEN v[2] ELSE v[3]

\* np.argmax / torch.argmax: the first index holding the maximum, as class 0..2
ArgMax(v) == IF v[1] >= v[2] /\ v[1] >= v[3] THEN 0 ELSE IF v[2] >= v[3] THEN 1 ELSE 2

\* an argmax answering the last index holding the maximum
ArgMaxFrac_LastMaximum(v) ==
    IF FracLE(v[1], v[3]) /\ FracLE(v[2], v[3]) THEN 2
    ELSE IF FracLE(v[1], v[2]) THEN 1 ELSE 0

\* np.argmax over a vector of fractions
ArgMaxFrac(v) ==
    IF FracLE(v[2], v[1]) /\ FracLE(v[3], v[1]) THEN 0
    ELSE IF FracLE(v[3], v[2]) THEN 1 ELSE 2

ClassToSignal(c) == IF c = 1 THEN "buy" ELSE IF c = 2 THEN "sell" ELSE "hold"

\* a probability of p units as a fraction of 1
ProbFrac(p) == Frac(p, ProbDen)

\* the per-model prediction dict built in predict_stock (lines 1488-1501,
\* 1511-1524) from the model's probabilities and its metadata's metrics
ModelPrediction(probs, metrics) ==
    [signal |-> ClassToSignal(ArgMax(probs)),
     confidence_score |-> CalculateConfidenceScore(metrics, Max3(probs)),
     class |-> ArgMax(probs),
     probabilities |-> probs]

\* the else branch of the ensemble: simple average when the weights are zero
EnsembleFallback(nn, rf) ==
    LET combined == [k \in 1..3 |->
                       FracDiv(FracAdd(ProbFrac(nn.probabilities[k]), ProbFrac(rf.probabilities[k])),
                               << 2, 1 >>)]
    IN  [class |-> ArgMaxFrac(combined),
         probabilities |-> combined,
         confidence |-> FracDiv(FracAdd(nn.confidence_score, rf.confidence_score), << 2, 1 >>)]

\* EnsembleCombine weighting each model by its confidence alone
EnsembleCombine_ConfidenceWeights(nn, rf) ==
    LET nn_weight == nn.confidence_score
        rf_weight == rf.confidence_score
        total_weight == FracAdd(nn_weight, rf_weight)
    IN  IF FracLT(Zero, total_weight)
        THEN LET combined == [k \in 1..3 |->
                                FracDiv(FracAdd(FracMul(ProbFrac(nn.probabilities[k]), nn_weight),
                                                FracMul(ProbFrac(rf.probabilities[k]), rf_weight)),
                                        total_weight)]
             IN  [class |-> ArgMaxFrac(combined),
                  probabilities |-> combined,
                  confidence |-> FracDiv(FracAdd(FracMul(nn.confidence_score, nn_weight),
                                                 FracMul(rf.confidence_score, rf_weight)),
                                         total_weight)]
        ELSE EnsembleFallback(nn, rf)

\* the ensemble step of predict_stock for two model predictions
EnsembleCombine(nn, rf) ==
    LET nn_weight == FracMul(nn.confidence_score, ProbFrac(Max3(nn.probabilities)))
        rf_weight == FracMul(rf.confidence_score, ProbFrac(Max3(rf.probabilities)))
        total_weight == FracAdd(nn_weight, rf_weight)
    IN  IF FracLT(Zero, total_weight)
        THEN LET combined == [k \in 1..3 |->
                                FracDiv(FracAdd(FracMul(ProbFrac(nn.probabilities[k]), nn_weight),
                                                FracMul(ProbFrac(rf.probabilities[k]), rf_weight)),
                                        total_weight)]
             IN  [class |-> ArgMaxFrac(combined),
                  probabilities |-> combined,
                  confidence |-> FracDiv(FracAdd(FracMul(nn.confidence_score, nn_weight),
                                                 FracMul(rf.confidence_score, rf_weight)),
                                         total_weight)]
        ELSE EnsembleFallback(nn, rf)

\* ------------------------------------------------------------------------
\* ml_service: cached-model accessors
\* ------------------------------------------------------------------------
\* a cached metadata document: the version tag and the stored metrics
Metadata(v, metrics) == [version |-> v, metrics |-> metrics]

\* GetNeuralNetworkModel looking into app.state before the module global
GetNeuralNetworkModel_AppStateFirst ==
    IF ~IsNone(app_state_models) /\ ~IsNone(Get(app_state_models).neural_network)
    THEN Get(app_state_models).neural_network
    ELSE neural_network_model

GetNeuralNetworkModel ==
    IF ~IsNone(neural_network_model) THEN neural_network_model
    ELSE IF ~IsNone(app_state_models) /\ ~IsNone(Get(app_state_models).neural_network)
         THEN Get(app_state_models).neural_network
         ELSE None

GetRandomForestModel ==
    IF ~IsNone(random_forest_model) THEN random_forest_model
    ELSE IF ~IsNone(app_state_models) /\ ~IsNone(Get(app_state_models).random_forest)
         THEN Get(app_state_models).random_forest
         ELSE None

GetNeuralNetworkMetadata ==
    IF ~IsNone(neural_network_metadata) THEN neural_network_metadata
    ELSE IF ~IsNone(app_state_models) THEN Get(app_state_models).neural_network_metadata
         ELSE None

GetRandomForestMetadata ==
    IF ~IsNone(random_forest_metadata) THEN random_forest_metadata
    ELSE IF ~IsNone(app_state_models) THEN Get(app_state_models).random_forest_metadata
         ELSE None

AreModelsLoaded == ~IsNone(GetNeuralNetworkModel) \/ ~IsNone(GetRandomForestModel)

\* model_metadata.get("metrics", {}) of "metadata or {}"
MetricsOf(meta) == IF IsNone(meta) THEN Metrics(None, None) ELSE Get(meta).metrics

\* ------------------------------------------------------------------------
\* ml_service.predict_stock
\* ------------------------------------------------------------------------
PredictError(kind) ==
    [ok |-> FALSE, error |-> kind, signal |-> "", confidence_score |-> Zero,
     model_used |-> "", neural_network_prediction |-> None,
     random_forest_prediction |-> None]

PredictOk(signal, confidence, model_used, nn_prediction, rf_prediction) ==
    [ok |-> TRUE, error |-> "", signal |-> signal, confidence_score |-> confidence,
     model_used |-> model_used, neural_network_prediction |-> nn_prediction,
     random_forest_prediction |-> rf_prediction]

\* ml_exceptions.py: the classes an exception of predict_stock is an
\* instance of
ExceptionBases(kind) ==
    IF kind \in {"ModelNotLoadedError", "InvalidInputError", "FeatureEngineeringError",
                 "InferenceError"}
    THEN {kind, "MLServiceError", "Exception", "BaseException"}
    ELSE {kind, "Exception", "BaseException"}

\* the phrases of the message predict_stock raises an exception with
ErrorPhrases(kind) ==
    CASE kind = "InvalidInputError" -> {"No market data found"}
      [] kind = "FeatureEngineeringError" -> {"Failed to create feature vector"}
      [] kind = "ModelNotLoadedError" -> {"No models loaded"}
      [] kind = "InferenceError" -> {"inference failed"}
      [] OTHER -> {}

\* rows of the matrix prepare_feature_vectors returns for one entity with
\* n market observations: none when n < 2
FeatureRows(n) == IF n < 2 THEN 0 ELSE n

\* step 4 of predict_stock: nn_prediction / rf_prediction are optional
\* (None when the model is unavailable or its inference raised)
CombinePredictions(use_ensemble, nn_available, rf_available, nn_prediction, rf_prediction) ==
    IF use_ensemble /\ nn_available /\ rf_available
    THEN LET e == EnsembleCombine(Get(nn_prediction), Get(rf_prediction))
         IN  PredictOk(ClassToSignal(e.class), e.confidence, "ensemble",
                       nn_prediction, rf_prediction)
    ELSE IF nn_available
    THEN PredictOk(Get(nn_prediction).signal, Get(nn_prediction).confidence_score,
                   "neural_network", nn_prediction, rf_prediction)
    ELSE IF rf_available
    THEN PredictOk(Get(rf_prediction).signal, Get(rf_prediction).confidence_score,
                   "random_forest", nn_prediction, rf_prediction)
    ELSE PredictError("ModelNotLoadedError")

\* RunInference in which any inference exception ends the request
RunInference_NoFallback(nn_out, rf_out, use_ensemble) ==
    LET nn_loaded == ~IsNone(GetNeuralNetworkModel)
        rf_loaded == ~IsNone(GetRandomForestModel)
        nn_prediction == IF nn_loaded /\ ~IsNone(nn_out)
                         THEN Some(ModelPrediction(Get(nn_out), MetricsOf(GetNeuralNetworkMetadata)))
                         ELSE None
        rf_prediction == IF rf_loaded /\ ~IsNone(rf_out)
                         THEN Some(ModelPrediction(Get(rf_out), MetricsOf(GetRandomForestMetadata)))
                         ELSE None
    IN  IF ~nn_loaded /\ ~rf_loaded THEN PredictError("ModelNotLoadedError")
        ELSE IF (nn_loaded /\ IsNone(nn_out)) \/ (rf_loaded /\ IsNone(rf_out))
        THEN PredictError("InferenceError")
        ELSE CombinePredictions(use_ensemble, nn_loaded, rf_loaded, nn_prediction, rf_prediction)

\* step 3 of predict_stock: nn_out / rf_out are what the two models' inference
\* yields for this feature vector: Some(probabilities), or None when it raises
RunInference(nn_out, rf_out, use_ensemble) ==
    LET nn_loaded == ~IsNone(GetNeuralNetworkModel)
        rf_loaded == ~IsNone(GetRandomForestModel)
        nn_raised == nn_loaded /\ IsNone(nn_out)
        rf_raised == rf_loaded /\ IsNone(rf_out)
        nn_prediction == IF nn_loaded /\ ~nn_raised
                         THEN Some(ModelPrediction(Get(nn_out), MetricsOf(GetNeuralNetworkMetadata)))
                         ELSE None
        rf_prediction == IF rf_loaded /\ ~rf_raised
                         THEN Some(ModelPrediction(Get(rf_out), MetricsOf(GetRandomForestMetadata)))
                         ELSE None
        \* nn_available after the neural-network try block
        nn_available == nn_loaded /\ ~nn_raised
    IN  IF ~nn_loaded /\ ~rf_loaded THEN PredictError("ModelNotLoadedError")
        ELSE IF nn_raised /\ ~rf_loaded THEN PredictError("InferenceError")
        ELSE IF rf_raised /\ ~nn_available THEN PredictError("InferenceError")
        ELSE CombinePredictions(use_ensemble, nn_available, rf_loaded /\ ~rf_raised,
                                nn_prediction, rf_prediction)

\* predict_stock(session, stock_id, market_data=None, sentiment_score=None, use_ensemble):
\*   has_latest  a latest market observation of the entity exists
\*   hist_len    number of its market observations in the inference window
PredictStock(has_latest, hist_len, nn_out, rf_out, use_ensemble) ==
    IF ~has_latest THEN PredictError("InvalidInputError")
    ELSE IF FeatureRows(IF hist_len = 0 THEN 1 ELSE hist_len) = 0
    THEN PredictError("FeatureEngineeringError")
    ELSE RunInference(nn_out, rf_out, use_ensemble)

\* ------------------------------------------------------------------------
\* recommendation_service.calculate_risk_level
\* ------------------------------------------------------------------------
FracSub(a, b) == Frac(a[1] * b[2] - b[1] * a[2], a[2] * b[2])

Hundredths(x) == Frac(x, 100)

\* market_conditions: None, or Some(market_volatility in hundredths)
MarketVolatility(mc) == IF IsNone(mc) THEN Hundredths(50) ELSE Clamp01(Hundredths(Get(mc)))

\* risk score of a volatility (hundredths) and a confidence (fraction)
RiskScore(volatility, ml_confidence, mc) ==
    Clamp01(FracAdd(FracAdd(FracMul(Hundredths(volatility), Hundredths(40)),
                            FracMul(FracSub(One, ml_confidence), Hundredths(40))),
                    FracMul(MarketVolatility(mc), Hundredths(20))))

\* RiskBucket with strict bucket limits (< instead of <=)
RiskBucket_Strict(score) ==
    IF FracLT(score, Hundredths(33)) THEN "low"
    ELSE IF FracLT(score, Hundredths(66)) THEN "medium"
    ELSE "high"

RiskBucket(score) ==
    IF FracLE(score, Hundredths(33)) THEN "low"
    ELSE IF FracLE(score, Hundredths(66)) THEN "medium"
    ELSE "high"

\* CalculateRiskLevel without the validation of ml_confidence
CalculateRiskLevel_NoValidation(volatility, ml_confidence, mc) ==
    RiskBucket(RiskScore(volatility, ml_confidence, mc))

\* volatility is what calculate_volatility returns for the entity
CalculateRiskLevel(volatility, ml_confidence, mc) ==
    IF ~(FracLE(Zero, ml_confidence) /\ FracLE(ml_confidence, One)) THEN "medium"
    ELSE RiskBucket(RiskScore(volatility, ml_confidence, mc))

\* ------------------------------------------------------------------------
\* ml_service.prepare_feature_vectors
\* ------------------------------------------------------------------------
\* a market observation: timestamp in days, price and volume integers
MarketObs(stock_id, timestamp, price, volume) ==
    [stock_id |-> stock_id, timestamp |-> timestamp, price |-> price, volume |-> volume]

\* a sentiment observation: timestamp in days, score in hundredths
SentimentObs(stock_id, timestamp, score) ==
    [stock_id |-> stock_id, timestamp |-> timestamp, sentiment_score |-> score]

\* Series.unique(): the stock ids in order of first appearance
RECURSIVE UniqueStockIds(_)
UniqueStockIds(rows) ==
    IF rows = << >> THEN << >>
    ELSE LET init == UniqueStockIds(SubSeq(rows, 1, Len(rows) - 1))
             last == rows[Len(rows)].stock_id
         IN  IF \E i \in 1..Len(init) : init[i] = last THEN init ELSE Append(init, last)

RECURSIVE InsertByTimestamp(_, _)
InsertByTimestamp(sorted, r) ==
    IF sorted = << >> THEN << r >>
    ELSE IF r.timestamp < Head(sorted).timestamp THEN << r >> \o sorted
    ELSE << Head(sorted) >> \o InsertByTimestamp(Tail(sorted), r)

\* df[df["stock_id"] == stock_id].sort_values("timestamp").reset_index(drop=True)
RECURSIVE RowsOfStock(_, _)
RowsOfStock(rows, stock_id) ==
    IF rows = << >> THEN << >>
    ELSE LET init == RowsOfStock(SubSeq(rows, 1, Len(rows) - 1), stock_id)
             last == rows[Len(rows)]
         IN  IF last.stock_id = stock_id THEN InsertByTimestamp(init, last) ELSE init

RECURSIVE SumOf(_, _)
\* the sum of the first n of the integers xs
SumOf(xs, n) == IF n = 0 THEN 0 ELSE SumOf(xs, n - 1) + xs[n]

RECURSIVE NewtonSqrt(_, _)
NewtonSqrt(n, x) ==
    LET y == (x + n \div x) \div 2
    IN  IF y >= x THEN x ELSE NewtonSqrt(n, y)

\* the integer part of the square root of n
ISqrt(n) == IF n = 0 THEN 0 ELSE NewtonSqrt(n, n)

\* Series.mean() of the integers xs
MeanOf(xs) == Frac(SumOf(xs, Len(xs)), Len(xs))

\* Series.std() of the integers xs (sample deviation, ddof = 1, Len >= 2),
\* in thousandths, rounded down
StdOf(xs) ==
    LET n == Len(xs)
        sum == SumOf(xs, n)
        squares == SumOf([i \in 1..n |-> xs[i] * xs[i]], n)
        \* variance = (n * squares - sum^2) / (n * (n - 1))
    IN  Frac(ISqrt(((n * squares - sum * sum) * 1000000) \div (n * (n - 1))), 1000)

\* (cur - prev) / prev if prev > 0 else 0.0
RelativeChange(cur, prev) == IF prev > 0 THEN Frac(cur - prev, prev) ELSE Zero

\* time_diffs.idxmin(): the first sentiment row at the least distance
ClosestIdx(stock_sentiment, timestamp) ==
    CHOOSE k \in 1..Len(stock_sentiment) :
        /\ \A j \in 1..Len(stock_sentiment) :
              Abs(stock_sentiment[k].timestamp - timestamp)
                  <= Abs(stock_sentiment[j].timestamp - timestamp)
        /\ \A j \in 1..(k - 1) :
              Abs(stock_sentiment[j].timestamp - timestamp)
                  > Abs(stock_sentiment[k].timestamp - timestamp)

\* the sentiment features of a market row (lines 213-236)
SentimentFeatures(stock_sentiment, timestamp) ==
    IF stock_sentiment = << >> THEN [sentiment_score |-> Zero, sentiment_trend |-> Zero]
    ELSE LET k == ClosestIdx(stock_sentiment, timestamp)
             prev == SelectSeq(stock_sentiment, LAMBDA r : r.timestamp < timestamp)
         IN  IF Abs(stock_sentiment[k].timestamp - timestamp) < 7
             THEN [sentiment_score |-> Hundredths(stock_sentiment[k].sentiment_score),
                   sentiment_trend |->
                       IF Len(prev) > 0
                       THEN Hundredths(stock_sentiment[k].sentiment_score
                                       - prev[Len(prev)].sentiment_score)
                       ELSE Zero]
             ELSE [sentiment_score |-> Zero, sentiment_trend |-> Zero]

\* the unnormalised features of row i of one stock (lines 180-238), in the
\* order of feature_columns
RawFeatures(stock_market, stock_sentiment, i) ==
    LET row == stock_market[i]
        prices == [j \in 1..i |-> stock_market[j].price]
        volumes == [j \in 1..i |-> stock_market[j].volume]
        sent == SentimentFeatures(stock_sentiment, row.timestamp)
    IN  << Frac(row.price, 1),
           IF i > 1 THEN RelativeChange(row.price, stock_market[i - 1].price) ELSE Zero,
           IF i >= 2 THEN MeanOf(prices) ELSE Frac(row.price, 1),
           IF i >= 2 THEN StdOf(prices) ELSE Zero,
           Frac(row.volume, 1),
           IF i > 1 THEN RelativeChange(row.volume, stock_market[i - 1].volume) ELSE Zero,
           IF i >= 2 THEN MeanOf(volumes) ELSE Frac(row.volume, 1),
           sent.sentiment_score,
           sent.sentiment_trend >>

\* TooFewObservations accepting a single observation
TooFewObservations_OnlyEmpty(stock_market) == Len(stock_market) < 1

\* if len(stock_market) < 2: continue
TooFewObservations(stock_market) == Len(stock_market) < 2

\* StockFeatureRows leaving out the first observation of the stock
StockFeatureRows_SkipFirst(market_data, sentiment_data, stock_id) ==
    LET stock_market == RowsOfStock(market_data, stock_id)
        stock_sentiment == RowsOfStock(sentiment_data, stock_id)
    IN  IF TooFewObservations(stock_market) THEN << >>
        ELSE [i \in 1..(Len(stock_market) - 1) |->
                 RawFeatures(stock_market, stock_sentiment, i + 1)]

\* the rows one stock contributes: none with fewer than 2 observations
StockFeatureRows(market_data, sentiment_data, stock_id) ==
    LET stock_market == RowsOfStock(market_data, stock_id)
        stock_sentiment == RowsOfStock(sentiment_data, stock_id)
    IN  IF TooFewObservations(stock_market) THEN << >>
        ELSE [i \in 1..Len(stock_market) |-> RawFeatures(stock_market, stock_sentiment, i)]

RECURSIVE CollectFeatureRows(_, _, _)
\* the loop over market_df["stock_id"].unique()
CollectFeatureRows(market_data, sentiment_data, ids) ==
    IF ids = << >> THEN << >>
    ELSE CollectFeatureRows(market_data, sentiment_data, SubSeq(ids, 1, Len(ids) - 1))
         \o StockFeatureRows(market_data, sentiment_data, ids[Len(ids)])

ColumnMin(rows, c) ==
    LET k == CHOOSE k \in 1..Len(rows) : \A j \in 1..Len(rows) : FracLE(rows[k][c], rows[j][c])
    IN  rows[k][c]

ColumnMax(rows, c) ==
    LET k == CHOOSE k \in 1..Len(rows) : \A j \in 1..Len(rows) : FracLE(rows[j][c], rows[k][c])
    IN  rows[k][c]

\* MinMaxScale dividing by the largest value instead of the range
MinMaxScale_ByMax(rows, c, x) ==
    LET lo == ColumnMin(rows, c)
        hi == ColumnMax(rows, c)
    IN  IF hi # lo /\ hi # Zero THEN FracDiv(x, hi) ELSE Frac(1, 2)

\* min-max scaling of value x of column c; 0.5 for a constant column
MinMaxScale(rows, c, x) ==
    LET lo == ColumnMin(rows, c)
        hi == ColumnMax(rows, c)
    IN  IF hi # lo THEN FracDiv(FracSub(x, lo), FracSub(hi, lo)) ELSE Frac(1, 2)

\* the normalisation of lines 244-283: columns 1-7 and 9 are min-max
\* scaled, column 8 (sentiment_score) is mapped by (x + 1) / 2
NormalizeFeatures(rows) ==
    [i \in 1..Len(rows) |->
        [c \in 1..9 |->
            IF c = 8 THEN FracDiv(FracAdd(rows[i][c], One), << 2, 1 >>)
            ELSE MinMaxScale(rows, c, rows[i][c])]]

\* prepare_feature_vectors(market_data, sentiment_data): the feature matrix
PrepareFeatureVectors(market_data, sentiment_data) ==
    IF market_data = << >> THEN << >>
    ELSE NormalizeFeatures(CollectFeatureRows(market_data, sentiment_data,
                                              UniqueStockIds(market_data)))

\* ------------------------------------------------------------------------
\* recommendation_service.synthesize_explanation (the phrases it selects)
\* ------------------------------------------------------------------------
\* sentiment_score: None or Some(hundredths)
SentimentDesc(sentiment_score) ==
    IF IsNone(sentiment_score) THEN "limited sentiment data"
    ELSE IF Get(sentiment_score) > 10 THEN "favorable market sentiment"
    ELSE IF Get(sentiment_score) < -10 THEN "unfavorable market sentiment"
    ELSE "neutral market sentiment"

SynthesizeExplanation(signal, sentiment_score, risk_level, ml_model_used) ==
    [model |-> ml_model_used, signal |-> signal,
     sentiment_desc |-> SentimentDesc(sentiment_score), risk_desc |-> risk_level]

\* ------------------------------------------------------------------------
\* recommendation_service.generate_recommendations
\* ------------------------------------------------------------------------
StockIds == {"s1", "s2", "s3"}

HoldingPeriods == {"none", "daily", "weekly", "monthly"}

\* VolatilityOkForHolding without the upper limit of the weekly band
VolatilityOkForHolding_NoWeeklyCap(pref, vol) ==
    IF pref = "none" THEN TRUE
    ELSE IF pref = "daily" THEN vol >= 5
    ELSE IF pref = "weekly" THEN 2 <= vol
    ELSE vol <= 40

\* _volatility_ok_for_holding; vol in hundredths
VolatilityOkForHolding(pref, vol) ==
    IF pref = "none" THEN TRUE
    ELSE IF pref = "daily" THEN vol >= 5
    ELSE IF pref = "weekly" THEN 2 <= vol /\ vol <= 60
    ELSE vol <= 40

RiskRank(r) == IF r = "low" THEN 0 ELSE IF r = "medium" THEN 1 ELSE 2

\* KeyLT preferring the higher risk on a tie
KeyLT_RiskDescending(a, b) ==
    \/ FracLT(b.confidence, a.confidence)
    \/ /\ a.confidence = b.confidence
       /\ \/ a.sentiment > b.sentiment
          \/ /\ a.sentiment = b.sentiment
             /\ RiskRank(a.risk_level) > RiskRank(b.risk_level)

\* the sort key (-confidence, -sentiment, risk_rank) compared as Python
\* compares tuples: KeyLT(a, b) iff key(a) < key(b)
KeyLT(a, b) ==
    \/ FracLT(b.confidence, a.confidence)
    \/ /\ a.confidence = b.confidence
       /\ \/ a.sentiment > b.sentiment
          \/ /\ a.sentiment = b.sentiment
             /\ RiskRank(a.risk_level) < RiskRank(b.risk_level)

\* insert c after every element whose key is not greater (stable)
RECURSIVE InsertSorted(_, _)
InsertSorted(sorted, c) ==
    IF sorted = << >> THEN << c >>
    ELSE IF KeyLT(c, Head(sorted)) THEN << c >> \o sorted
    ELSE << Head(sorted) >> \o InsertSorted(Tail(sorted), c)

\* list.sort(key=...): a stable sort by the key
RECURSIVE SortCandidates(_)
SortCandidates(cs) ==
    IF cs = << >> THEN << >>
    ELSE InsertSorted(SortCandidates(SubSeq(cs, 1, Len(cs) - 1)), cs[Len(cs)])

\* SelectTop taking one candidate more than asked for
SelectTop_OneMore(sorted, n) ==
    LET k == IF n < 0 THEN 0 ELSE n + 1
    IN  SubSeq(sorted, 1, IF k < Len(sorted) THEN k ELSE Len(sorted))

\* candidates[: max(0, int(daily_target_count))]
SelectTop(sorted, n) ==
    LET k == IF n < 0 THEN 0 ELSE n
    IN  SubSeq(sorted, 1, IF k < Len(sorted) THEN k ELSE Len(sorted))

\* the Recommendation row built from a selected candidate
MakeRecommendation(item, now) ==
    [stock_id |-> item.stock_id, signal |-> item.signal,
     confidence_score |-> item.confidence, sentiment_score |-> item.sentiment,
     risk_level |-> item.risk_level, explanation |-> item.explanation,
     created_at |-> now]

Persist(selected, now) == [i \in 1..Len(selected) |-> MakeRecommendation(selected[i], now)]

\* calculate_volatility: vol is the normalised deviation computed from the
\* price history, None when the history query raises (the except branch)
CalculateVolatility(vol) == IF IsNone(vol) THEN 0 ELSE Get(vol)

\* What the collaborators return while one entity is scored:
\*   has_latest   get_latest_market_data found a row
\*   hist_len     market rows in the inference window of predict_stock
\*   nn_out, rf_out   Some(probabilities) or None (the inference raises)
\*   agg_raises, agg  get_aggregated_sentiment raises / returns agg
\*   vol          see CalculateVolatility
\*   risk_raises  an exception inside the try block of calculate_risk_level
\*   expl_raises  synthesize_explanation raises (a data-access failure)
ScoringInput(has_latest, hist_len, nn_out, rf_out, agg_raises, agg, vol, risk_raises, expl_raises) ==
    [has_latest |-> has_latest, hist_len |-> hist_len, nn_out |-> nn_out, rf_out |-> rf_out,
     agg_raises |-> agg_raises, agg |-> agg, vol |-> vol, risk_raises |-> risk_raises,
     expl_raises |-> expl_raises]

NoCandidate ==
    [stock_id |-> "", signal |-> "", confidence |-> Zero, sentiment |-> 0,
     risk_level |-> "", explanation |-> SynthesizeExplanation("", None, "", "")]

\* the try block after predict_stock returned inference (lines 585-646)
ScoreInference(s, inference, in, pref, mc) ==
    LET confidence == inference.confidence_score
        sentiment_score == IF in.agg_raises \/ IsNone(in.agg) THEN 0 ELSE Get(in.agg)
        volatility_score == CalculateVolatility(in.vol)
        risk_level == IF in.risk_raises THEN "medium"
                      ELSE CalculateRiskLevel(volatility_score, confidence, mc)
        explanation == SynthesizeExplanation(inference.signal,
                           IF sentiment_score # 0 THEN Some(sentiment_score) ELSE None,
                           risk_level, inference.model_used)
    IN  IF ~VolatilityOkForHolding(pref, volatility_score)
        THEN [outcome |-> "filtered", candidate |-> NoCandidate]
        ELSE IF in.expl_raises THEN [outcome |-> "raised", candidate |-> NoCandidate]
        ELSE [outcome |-> "candidate",
              candidate |-> [stock_id |-> s, signal |-> inference.signal,
                             confidence |-> confidence, sentiment |-> sentiment_score,
                             risk_level |-> risk_level, explanation |-> explanation]]

\* the try block of the loop over stocks (lines 571-646) for stock s;
\* outcome "raised" is an exception leaving the block
TryScore(s, in, pref, mc) ==
    LET inference == PredictStock(in.has_latest, in.hist_len, in.nn_out, in.rf_out, TRUE)
    IN  IF ~in.has_latest THEN [outcome |-> "skipped", candidate |-> NoCandidate]
        ELSE IF ~inference.ok THEN [outcome |-> "raised", candidate |-> NoCandidate]
        ELSE ScoreInference(s, inference, in, pref, mc)

\* ScoreOutcome without the except clause: the exception leaves the loop
ScoreOutcome_NoCatch(s, in, pref, mc) == TryScore(s, in, pref, mc)

\* the loop body with its "except Exception: ... continue" (lines 647-667)
ScoreOutcome(s, in, pref, mc) ==
    LET t == TryScore(s, in, pref, mc)
    IN  IF t.outcome = "raised" THEN [outcome |-> "failed", candidate |-> NoCandidate] ELSE t

\* ------------------------------------------------------------------------
\* Input domains
\* ------------------------------------------------------------------------
\* probability vectors the two models return in a generation run
NNSample == << 1, ProbDen - 1, 0 >>

RFSample == << 0, 1, ProbDen - 1 >>

\* volatilities around the band limits 0.02, 0.05, 0.4 and 0.6, and the largest
Vols == {1, 2, 5, 40, 60, 61, 100}

Sentiments == {-20, 0, 20}

\* values of a stored R^2 or accuracy, in hundredths
BaseValues == {-50, 0, 40, 80, 100, 150}

DefaultInput(has_latest) ==
    ScoringInput(has_latest, 7, Some(NNSample), Some(RFSample), FALSE, Some(20), Some(5),
                 FALSE, FALSE)

\* the default input with one collaborator answering differently
ScoringInputs(has_latest) ==
    LET d == DefaultInput(has_latest)
    IN  {d, [d EXCEPT !.nn_out = None], [d EXCEPT !.rf_out = None],
         [d EXCEPT !.nn_out = None, !.rf_out = None], [d EXCEPT !.hist_len = 1],
         [d EXCEPT !.agg_raises = TRUE], [d EXCEPT !.agg = None],
         [d EXCEPT !.vol = None], [d EXCEPT !.risk_raises = TRUE],
         [d EXCEPT !.expl_raises = TRUE]}
        \cup {[d EXCEPT !.agg = Some(a)] : a \in Sentiments}
        \cup {[d EXCEPT !.vol = Some(v)] : v \in Vols}

\* a loaded model is known by its version tag
Loaded(v) == Some(v)

AppState(nn, nn_meta, rf, rf_meta) ==
    Some([neural_network |-> nn, neural_network_metadata |-> nn_meta,
          random_forest |-> rf, random_forest_metadata |-> rf_meta])

CacheConfig(nn, nn_meta, rf, rf_meta, app) ==
    [nn |-> nn, nn_meta |-> nn_meta, rf |-> rf, rf_meta |-> rf_meta, app |-> app]

\* the cache after initialize_models loaded what it found (acc_nn, acc_rf:
\* the accuracies stored with the artifacts), with app.state.models unset,
\* set from the globals, or set while the module globals are empty
CacheConfigs(acc_nn, acc_rf) ==
    LET nn == Loaded("v1")
        rf == Loaded("v1")
        nn_meta == Some(Metadata("v1", Metrics(None, Some(acc_nn))))
        rf_meta == Some(Metadata("v1", Metrics(None, Some(acc_rf))))
    IN  {CacheConfig(nn, nn_meta, rf, rf_meta, None),
         CacheConfig(nn, nn_meta, None, None, AppState(nn, nn_meta, None, None)),
         CacheConfig(None, None, rf, rf_meta, None),
         CacheConfig(None, None, None, None, AppState(None, None, rf, rf_meta)),
         CacheConfig(None, None, None, None, AppState(nn, nn_meta, rf, rf_meta)),
         CacheConfig(None, None, None, None, AppState(None, None, None, None)),
         CacheConfig(None, None, None, None, None)}

CacheIs(c) ==
    /\ neural_network_model = c.nn
    /\ neural_network_metadata = c.nn_meta
    /\ random_forest_model = c.rf
    /\ random_forest_metadata = c.rf_meta
    /\ app_state_models = c.app

\* rows written to the recommendations table by an earlier run
EarlierRow(s) ==
    MakeRecommendation([stock_id |-> s, signal |-> "hold", confidence |-> Frac(1, 2),
                        sentiment |-> 0, risk_level |-> "medium",
                        explanation |-> SynthesizeExplanation("hold", None, "medium", "ensemble")],
                       0)

NoScoring == [stock_id |-> "", input |-> DefaultInput(FALSE), outcome |-> ""]

IdleRun ==
    /\ pc = "idle"
    /\ daily_target_count = 0
    /\ market_conditions = None
    /\ holding_pref = "none"
    /\ stocks = << >>
    /\ pos = 1
    /\ scoring = NoScoring
    /\ candidates = << >>
    /\ returned = << >>
    /\ clock = 1

NoCalls ==
    /\ predict_args = None
    /\ predict_result = None
    /\ confidence_args = None
    /\ confidence_result = None
    /\ risk_args = None
    /\ risk_result = None
    /\ features_args = None
    /\ labels_args = None
    /\ labels_result = None
    /\ model_storage = None
    /\ tampered = FALSE
    /\ saved_versions = {}
    /\ latest_args = None
    /\ latest_result = None
    /\ load_args = None
    /\ load_result = None
    /\ initialize_result = None
    /\ accessor_result = None
    /\ training_runs = 0
    /\ training_set = None
    /\ pending_save = None
    /\ initialize_calls = 0
    /\ startup_pc = "scheduler_started"
    /\ features_result = None

\* ------------------------------------------------------------------------
\* Specification of generate_recommendations
\* ------------------------------------------------------------------------
\* the cache states a generation run is started in
RunCacheConfigs ==
    {c \in CacheConfigs(80, 80) :
        \/ ~IsNone(c.nn) /\ ~IsNone(c.rf)
        \/ IsNone(c.nn) /\ IsNone(c.rf) /\ IsNone(c.nn_meta)
           /\ (IsNone(c.app) \/ IsNone(Get(c.app).neural_network))}

\* the arguments of a run, daily_target_count and market_conditions: every
\* target count for a user without preference, the largest one otherwise
RunArgs(pref) ==
    IF pref = "none"
    THEN {<< n, None >> : n \in (-1)..MaxTarget} \cup {<< MaxTarget, Some(100) >>}
    ELSE {<< MaxTarget, None >>}

RECURSIVE Orderings(_)
\* the orders in which a query without ORDER BY can return the rows S
Orderings(S) ==
    IF S = {} THEN {<< >>}
    ELSE UNION {{<< x >> \o t : t \in Orderings(S \ {x})} : x \in S}

Init ==
    /\ \E c \in RunCacheConfigs : CacheIs(c)
    /\ NoCalls
    /\ stock_table \in {{}, StockIds \ {"s1"}, StockIds}
    /\ market_rows \in {{}, StockIds \ {"s3"}, StockIds}
    /\ user_holding_period \in HoldingPeriods
    /\ recommendations = << EarlierRow("s1") >>
    /\ IdleRun

\* EligibleStocks keeping the entities without market data
EligibleStocks_NoFilter(table, rows) == table

\* stocks = [s for s in stocks if s.id in stocks_with_data]
EligibleStocks(table, rows) == table \cap rows

\* SessionAddAll replacing the stored rows by the new ones
SessionAddAll_Replace(table, rows) == rows

\* session.add of every new row, then session.commit
SessionAddAll(table, rows) == table \o rows

\* generate_recommendations up to the scoring loop (lines 504-566)
StartGeneration ==
    /\ pc = "idle"
    /\ \E args \in RunArgs(user_holding_period) :
         /\ daily_target_count' = args[1]
         /\ market_conditions' = args[2]
    /\ LET eligible == EligibleStocks(stock_table, market_rows)
       IN  IF eligible = {} \/ ~AreModelsLoaded \/ market_rows = {}
           THEN /\ pc' = "done"
                /\ UNCHANGED << holding_pref, stocks >>
           ELSE /\ pc' = "scoring"
                /\ holding_pref' = user_holding_period
                /\ stocks' \in Orderings(eligible)
    /\ UNCHANGED << cache_vars, predict_vars, confidence_vars, db_vars, helper_vars, recommendations,
                    pos, scoring, candidates, returned, clock >>

\* one iteration of the scoring loop; an exception that leaves the loop
\* body ends generate_recommendations (pc = "raised")
ScoreStock ==
    /\ pc = "scoring"
    /\ pos <= Len(stocks)
    /\ \E in \in ScoringInputs(stocks[pos] \in market_rows) :
         \E out \in {ScoreOutcome(stocks[pos], in, holding_pref, market_conditions)} :
             /\ scoring' = [stock_id |-> stocks[pos], input |-> in, outcome |-> out.outcome]
             /\ candidates' = IF out.outcome = "candidate"
                              THEN Append(candidates, out.candidate)
                              ELSE candidates
             /\ pc' = IF out.outcome = "raised" THEN "raised" ELSE pc
    /\ pos' = pos + 1
    /\ UNCHANGED << cache_vars, predict_vars, confidence_vars, db_vars, helper_vars, recommendations,
                    daily_target_count, market_conditions, holding_pref, stocks,
                    returned, clock >>

\* after the loop: sort, select the top N, persist and return (lines 669-738)
FinishGeneration ==
    /\ pc = "scoring"
    /\ pos > Len(stocks)
    /\ IF candidates = << >>
       THEN /\ returned' = << >>
            /\ UNCHANGED << candidates, recommendations >>
       ELSE LET sorted == SortCandidates(candidates)
                persisted == Persist(SelectTop(sorted, daily_target_count), clock)
            IN  /\ candidates' = sorted
                /\ recommendations' = SessionAddAll(recommendations, persisted)
                /\ returned' = persisted
    /\ pc' = "done"
    /\ stocks' = << >>
    /\ scoring' = NoScoring
    /\ clock' = clock + 1
    /\ UNCHANGED << cache_vars, predict_vars, confidence_vars, db_vars, helper_vars,
                    daily_target_count, market_conditions, holding_pref, pos >>

Next == StartGeneration \/ ScoreStock \/ FinishGeneration

Spec == Init /\ [][Next]_vars

\* ------------------------------------------------------------------------
\* Specification of predict_stock: one call in every cache state
\* ------------------------------------------------------------------------
InitPredict ==
    /\ \E c \in CacheConfigs(80, 60) \cup CacheConfigs(0, 0) : CacheIs(c)
    /\ NoCalls
    /\ stock_table = StockIds
    /\ market_rows = StockIds
    /\ user_holding_period = "none"
    /\ recommendations = << >>
    /\ IdleRun

\* what the two models yield for a feature vector
ModelOutputs == {None} \cup {Some(p) : p \in Probs}

\* predict_stock(session, stock_id, use_ensemble=...)
CallPredictStock ==
    /\ IsNone(predict_args)
    /\ \E has_latest \in BOOLEAN, hist_len \in 0..2, nn_out \in ModelOutputs,
          rf_out \in ModelOutputs, use_ensemble \in BOOLEAN :
         /\ has_latest \/ hist_len = 0
         /\ predict_args' = Some([has_latest |-> has_latest, hist_len |-> hist_len,
                                  nn_out |-> nn_out, rf_out |-> rf_out,
                                  use_ensemble |-> use_ensemble])
         /\ predict_result' = Some(PredictStock(has_latest, hist_len, nn_out, rf_out, use_ensemble))
    /\ UNCHANGED << cache_vars, confidence_vars, db_vars, helper_vars, recommendations, run_vars >>

NextPredict == CallPredictStock

SpecPredict == InitPredict /\ [][NextPredict]_vars

\* ------------------------------------------------------------------------
\* Specification of _calculate_confidence_score: one call
\* ------------------------------------------------------------------------
OptionalBases == {None} \cup {Some(b) : b \in BaseValues}

InitConfidence ==
    /\ CacheIs(CacheConfig(None, None, None, None, None))
    /\ NoCalls
    /\ stock_table = StockIds
    /\ market_rows = StockIds
    /\ user_holding_period = "none"
    /\ recommendations = << >>
    /\ IdleRun

CallCalculateConfidenceScore ==
    /\ IsNone(confidence_args)
    /\ \E r2 \in OptionalBases, acc \in OptionalBases, p \in 0..ProbDen :
         /\ confidence_args' = Some([metrics |-> Metrics(r2, acc), probability |-> p])
         /\ confidence_result' = Some(CalculateConfidenceScore(Metrics(r2, acc), p))
    /\ UNCHANGED << cache_vars, predict_vars, db_vars, helper_vars, recommendations, run_vars >>

NextConfidence == CallCalculateConfidenceScore

SpecConfidence == InitConfidence /\ [][NextConfidence]_vars

\* ------------------------------------------------------------------------
\* Specification of calculate_risk_level: one direct call
\* ------------------------------------------------------------------------
\* volatilities returned by calculate_volatility, in hundredths
RiskVolatilities == {0, 25, 50, 100}

\* ml_confidence values in fortieths, from -0.1 to 1.1
RiskConfidences == {Frac(k, 40) : k \in (-4)..44}

\* market_conditions: absent, or a market_volatility in hundredths
MarketConditions == {None, Some(-20), Some(0), Some(50), Some(100), Some(150)}

InitRisk ==
    /\ CacheIs(CacheConfig(None, None, None, None, None))
    /\ NoCalls
    /\ stock_table = StockIds
    /\ market_rows = StockIds
    /\ user_holding_period = "none"
    /\ recommendations = << >>
    /\ IdleRun

\* calculate_risk_level(session, stock_id, ml_confidence, market_conditions);
\* raises: an exception inside its try block (the except branch answers)
CallCalculateRiskLevel ==
    /\ IsNone(risk_args)
    /\ \E volatility \in RiskVolatilities, ml_confidence \in RiskConfidences,
          mc \in MarketConditions, raises \in BOOLEAN :
         /\ risk_args' = Some([volatility |-> volatility, ml_confidence |-> ml_confidence,
                               market_conditions |-> mc, raises |-> raises])
         /\ risk_result' = Some(IF raises THEN "medium"
                                ELSE CalculateRiskLevel(volatility, ml_confidence, mc))
    /\ UNCHANGED << cache_vars, predict_vars, confidence_vars, db_vars, recommendations,
                    run_vars, features_vars, labels_vars, storage_vars, lifecycle_vars >>

NextRisk == CallCalculateRiskLevel

SpecRisk == InitRisk /\ [][NextRisk]_vars

\* ------------------------------------------------------------------------
\* Specification of the scoring loop for given inference results: the loop
\* body from the return of predict_stock on, whatever confidence it reports
\* ------------------------------------------------------------------------
\* confidences reported for an entity, inside and outside [0, 1]
ReportedConfidences == {Frac(-1, 10), Zero, Frac(7, 10), One, Frac(3, 2)}

InferenceResult(confidence) ==
    PredictOk("buy", confidence, "ensemble", None, None)

\* what the other collaborators answer
LoopInputs ==
    LET d == DefaultInput(TRUE)
    IN  {d, [d EXCEPT !.vol = Some(100)], [d EXCEPT !.risk_raises = TRUE],
         [d EXCEPT !.expl_raises = TRUE]}

\* generate_recommendations at the head of the loop over two entities
InitLoop ==
    /\ CacheIs(CacheConfig(Loaded("v1"), None, Loaded("v1"), None, None))
    /\ NoCalls
    /\ stock_table = {"s1", "s2"}
    /\ market_rows = {"s1", "s2"}
    /\ user_holding_period \in {"none", "monthly"}
    /\ recommendations = << EarlierRow("s1") >>
    /\ pc = "scoring"
    /\ daily_target_count = MaxTarget
    /\ market_conditions = None
    /\ holding_pref = user_holding_period
    /\ stocks \in Orderings({"s1", "s2"})
    /\ pos = 1
    /\ scoring = NoScoring
    /\ candidates = << >>
    /\ returned = << >>
    /\ clock = 1

\* one iteration of the loop; risk_args and risk_result record the call of
\* calculate_risk_level it makes (None when the entity is filtered before)
ScoreInferred ==
    /\ pc = "scoring"
    /\ pos <= Len(stocks)
    /\ \E confidence \in ReportedConfidences, in \in LoopInputs :
         \E t \in {ScoreInference(stocks[pos], InferenceResult(confidence), in,
                                  holding_pref, market_conditions)} :
             /\ scoring' = [stock_id |-> stocks[pos], input |-> in,
                            outcome |-> IF t.outcome = "raised" THEN "failed" ELSE t.outcome]
             /\ candidates' = IF t.outcome = "candidate"
                              THEN Append(candidates, t.candidate)
                              ELSE candidates
             /\ IF t.outcome = "filtered"
                THEN /\ risk_args' = None
                     /\ risk_result' = None
                ELSE /\ risk_args' = Some([volatility |-> CalculateVolatility(in.vol),
                                           ml_confidence |-> confidence,
                                           market_conditions |-> market_conditions,
                                           raises |-> in.risk_raises])
                     /\ risk_result' =
                            Some(IF in.risk_raises THEN "medium"
                                 ELSE CalculateRiskLevel(CalculateVolatility(in.vol),
                                                         confidence, market_conditions))
    /\ pos' = pos + 1
    /\ UNCHANGED << cache_vars, predict_vars, confidence_vars, db_vars, recommendations,
                    pc, daily_target_count, market_conditions, holding_pref, stocks,
                    returned, clock, features_vars, labels_vars, storage_vars, lifecycle_vars >>

NextLoop == ScoreInferred \/ FinishGeneration

SpecLoop == InitLoop /\ [][NextLoop]_vars

\* ------------------------------------------------------------------------
\* Specification of prepare_feature_vectors: one call
\* ------------------------------------------------------------------------
\* price and volume of one market observation
MarketPoints == {<< 1, 0 >>, << 1, 1 >>, << 2, 1 >>}

\* the series of entity s1: up to MaxObs daily observations from day 11 on
S1Series ==
    UNION {{[i \in 1..n |-> MarketObs("s1", 10 + i, f[i][1], f[i][2])] :
                f \in [1..n -> MarketPoints]} : n \in 0..MaxObs}

\* the series of entity s2: none, one or two observations
S2Series ==
    {<< >>,
     << MarketObs("s2", 11, 1, 1) >>,
     << MarketObs("s2", 11, 1, 1), MarketObs("s2", 12, 2, 1) >>,
     << MarketObs("s2", 11, 2, 1), MarketObs("s2", 12, 2, 1) >>}

\* sentiment observations of s1, 6, 7 and 8 days away from its market
\* observations or among them; s2 has none
SentimentDays == {4, 5, 11, 19}

SentimentScores == {-100, 40}

S1Sentiments ==
    {<< >>}
    \cup {<< SentimentObs("s1", t, x) >> : t \in SentimentDays, x \in SentimentScores}
    \cup {<< SentimentObs("s1", t[1], x), SentimentObs("s1", t[2], -60 - x) >> :
              t \in {t \in SentimentDays \X SentimentDays : t[1] < t[2]},
              x \in SentimentScores}
    \cup {<< SentimentObs("s1", 11, 40), SentimentObs("s1", 5, -100) >>}

Reversed(q) == [i \in 1..Len(q) |-> q[Len(q) + 1 - i]]

InitFeatures ==
    /\ CacheIs(CacheConfig(None, None, None, None, None))
    /\ NoCalls
    /\ stock_table = StockIds
    /\ market_rows = StockIds
    /\ user_holding_period = "none"
    /\ recommendations = << >>
    /\ IdleRun

\* prepare_feature_vectors(market_data, sentiment_data); the rows are passed
\* in time order, or latest first with s2 ahead of s1
CallPrepareFeatureVectors ==
    /\ IsNone(features_args)
    /\ \E s1 \in S1Series, s2 \in S2Series, sent \in S1Sentiments, latest_first \in BOOLEAN :
         /\ LET market_data == IF latest_first THEN Reversed(s1 \o s2) ELSE s1 \o s2
            IN  /\ features_args' = Some([market_data |-> market_data, sentiment_data |-> sent])
                /\ features_result' = Some(PrepareFeatureVectors(market_data, sent))
    /\ UNCHANGED << cache_vars, predict_vars, confidence_vars, db_vars, recommendations,
                    run_vars, risk_vars, labels_vars, storage_vars, lifecycle_vars >>

NextFeatures == CallPrepareFeatureVectors

SpecFeatures == InitFeatures /\ [][NextFeatures]_vars

\* ------------------------------------------------------------------------
\* _generate_labels (ml_service.py 711-768)
\* ------------------------------------------------------------------------
\* settings.ML_LABEL_FUTURE_DAYS, in days
ML_LABEL_FUTURE_DAYS == 7

\* settings.ML_BUY_THRESHOLD and settings.ML_SELL_THRESHOLD, in hundredths
ML_BUY_THRESHOLD == 5

ML_SELL_THRESHOLD == -5

\* the order of the stock_id column
StockIdRank(stock_id) ==
    CASE stock_id = "s1" -> 1
      [] stock_id = "s2" -> 2
      [] stock_id = "s3" -> 3

RECURSIVE InsertByStockAndTimestamp(_, _)
InsertByStockAndTimestamp(sorted, r) ==
    IF sorted = << >> THEN << r >>
    ELSE IF \/ StockIdRank(r.stock_id) < StockIdRank(Head(sorted).stock_id)
            \/ /\ r.stock_id = Head(sorted).stock_id
               /\ r.timestamp < Head(sorted).timestamp
         THEN << r >> \o sorted
    ELSE << Head(sorted) >> \o InsertByStockAndTimestamp(Tail(sorted), r)

\* df.sort_values(["stock_id", "timestamp"])
RECURSIVE SortByStockAndTimestamp(_)
SortByStockAndTimestamp(rows) ==
    IF rows = << >> THEN << >>
    ELSE InsertByStockAndTimestamp(SortByStockAndTimestamp(SubSeq(rows, 1, Len(rows) - 1)),
                                   rows[Len(rows)])

\* the rows of stock_data later than row i and at most future_days after it
FutureData(stock_data, i, future_days) ==
    SelectSeq(stock_data,
              LAMBDA r : /\ r.timestamp > stock_data[i].timestamp
                         /\ r.timestamp <= stock_data[i].timestamp + future_days)

\* FuturePrice taking the nearest later row, future_data.iloc[0]
FuturePrice_Nearest(future_data) == future_data[1].price

\* future_data.iloc[-1]["price"]
FuturePrice(future_data) == future_data[Len(future_data)].price

\* the label of row i of stock_data: 0 hold, 1 buy, 2 sell
LabelOf(stock_data, i, future_days, buy_threshold, sell_threshold) ==
    LET future_data == FutureData(stock_data, i, future_days)
        current_price == stock_data[i].price
    IN  IF Len(future_data) > 0
        THEN LET price_change == Frac(FuturePrice(future_data) - current_price, current_price)
             IN  IF FracLE(Hundredths(buy_threshold), price_change) THEN 1
                 ELSE IF FracLE(price_change, Hundredths(sell_threshold)) THEN 2
                 ELSE 0
        ELSE 0

RECURSIVE StockLabels(_, _, _, _, _)
\* the labels of the stocks from the k-th on, in the order of df
StockLabels(df, k, future_days, buy_threshold, sell_threshold) ==
    IF k > Len(UniqueStockIds(df)) THEN << >>
    ELSE LET stock_data == SelectSeq(df, LAMBDA r : r.stock_id = UniqueStockIds(df)[k])
         IN  [i \in 1..Len(stock_data) |->
                 LabelOf(stock_data, i, future_days, buy_threshold, sell_threshold)]
             \o StockLabels(df, k + 1, future_days, buy_threshold, sell_threshold)

\* _generate_labels(market_data, future_days, buy_threshold, sell_threshold);
\* an argument left out (None) takes its value from the settings
GenerateLabels(market_data, future_days, buy_threshold, sell_threshold) ==
    StockLabels(SortByStockAndTimestamp(market_data), 1,
                IF IsNone(future_days) THEN ML_LABEL_FUTURE_DAYS ELSE Get(future_days),
                IF IsNone(buy_threshold) THEN ML_BUY_THRESHOLD ELSE Get(buy_threshold),
                IF IsNone(sell_threshold) THEN ML_SELL_THRESHOLD ELSE Get(sell_threshold))

\* the days of the observations of s1: 3, 7 and 8 days after the first
LabelDays == << 10, 13, 17, 18 >>

\* prices 5% above and below 100, and one less than 5% above
LabelPrices == {95, 100, 104, 105}

\* the strictly increasing sequences of n indices of LabelDays
RECURSIVE IncreasingIndices(_, _)
IncreasingIndices(n, from) ==
    IF n = 0 THEN {<< >>}
    ELSE UNION {{<< d >> \o t : t \in IncreasingIndices(n - 1, d + 1)} :
                    d \in from..Len(LabelDays)}

\* the series of s1: one to MaxObs observations on distinct days
S1LabelSeries ==
    UNION {{[i \in 1..n |-> MarketObs("s1", LabelDays[ds[i]], f[i], 1)] :
                ds \in IncreasingIndices(n, 1), f \in [1..n -> LabelPrices]} :
           n \in 1..MaxObs}

\* the series of s2: none, or two observations 7 days apart
S2LabelSeries ==
    {<< >>, << MarketObs("s2", 11, 100, 1), MarketObs("s2", 18, 95, 1) >>}

\* the keyword arguments: all left out, the values of the unit test, a
\* window of 3 days with thresholds of 4% and -4%
LabelArguments ==
    {[future_days |-> None, buy_threshold |-> None, sell_threshold |-> None],
     [future_days |-> Some(7), buy_threshold |-> Some(5), sell_threshold |-> Some(-5)],
     [future_days |-> Some(3), buy_threshold |-> Some(4), sell_threshold |-> Some(-4)]}

InitLabels ==
    /\ CacheIs(CacheConfig(None, None, None, None, None))
    /\ NoCalls
    /\ stock_table = StockIds
    /\ market_rows = StockIds
    /\ user_holding_period = "none"
    /\ recommendations = << >>
    /\ IdleRun

\* _generate_labels on the rows of a non-empty training window (train_models
\* raises before the call when there are none), in time order or latest first
CallGenerateLabels ==
    /\ IsNone(labels_args)
    /\ \E s1 \in S1LabelSeries, s2 \in S2LabelSeries, a \in LabelArguments,
          latest_first \in BOOLEAN :
         LET market_data == IF latest_first THEN Reversed(s1 \o s2) ELSE s2 \o s1
         IN  /\ labels_args' = Some([market_data |-> market_data,
                                     future_days |-> a.future_days,
                                     buy_threshold |-> a.buy_threshold,
                                     sell_threshold |-> a.sell_threshold])
             /\ labels_result' = Some(GenerateLabels(market_data, a.future_days,
                                                     a.buy_threshold, a.sell_threshold))
    /\ UNCHANGED << cache_vars, predict_vars, confidence_vars, db_vars, recommendations,
                    run_vars, risk_vars, features_vars, storage_vars,
                    lifecycle_vars >>

NextLabels == CallGenerateLabels

SpecLabels == InitLabels /\ [][NextLabels]_vars

\* ------------------------------------------------------------------------
\* Model artifacts: save_model, get_latest_model_version, load_model
\* (ml_service.py 430-708)
\* ------------------------------------------------------------------------
\* A file name and a version string are sequences of characters; a run of
\* letters that holds neither "_" nor "." ("neural", "metadata", "pth", ...)
\* is written as one element.  A file is a record of a name and a content;
\* the directory is None when it does not exist and the set of its files
\* otherwise.
ModelTypes == {"neural_network", "random_forest"}

\* the characters of f"{model_type}"
TypeName(model_type) ==
    IF model_type = "neural_network" THEN << "neural", "_", "network" >>
    ELSE << "random", "_", "forest" >>

\* the suffix of the model file: .pth for the network, .pkl for the forest
ModelSuffix(model_type) == IF model_type = "neural_network" THEN "pth" ELSE "pkl"

\* base_path / f"{model_type}_{version}.pth" (or .pkl)
ModelPath(model_type, version) ==
    TypeName(model_type) \o << "_" >> \o version \o << ".", ModelSuffix(model_type) >>

\* base_path / f"{model_type}_{version}_metadata.json"
MetadataPath(model_type, version) ==
    TypeName(model_type) \o << "_" >> \o version \o << "_", "metadata", ".", "json" >>

\* the architecture fields save_model writes for a type
ArchitectureFields(model_type) ==
    IF model_type = "neural_network"
    THEN {"input_size", "hidden_size1", "hidden_size2", "num_classes"}
    ELSE {"n_estimators", "max_depth"}

\* the content of a model file: the model it deserializes to, unless damaged
ModelFile(model) == [kind |-> "model", model |-> model, intact |-> TRUE]

\* the content of a metadata file: whether it parses as JSON, the keys of
\* the document and the value of its "version" key
MetadataFile(fields, version) ==
    [kind |-> "json", parses |-> TRUE, fields |-> fields, version |-> version]

PathExists(dir, path) == \E f \in dir : f.name = path

ReadFile(dir, path) == (CHOOSE f \in dir : f.name = path).content

\* open(path, "w") and write: a file of that name is replaced
WriteFile(dir, path, content) ==
    {f \in dir : f.name # path} \cup {[name |-> path, content |-> content]}

\* save_model(model, model_type, version, metrics, base_path): the directory
\* after the call; has_metrics is the truth value of the metrics argument
SaveModel(dir, model, model_type, version, has_metrics) ==
    LET made == IF IsNone(dir) THEN {} ELSE Get(dir)
        fields == {"model_type", "version", "training_date"}
                      \cup ArchitectureFields(model_type)
                      \cup (IF has_metrics THEN {"metrics"} ELSE {})
    IN  Some(WriteFile(WriteFile(made, ModelPath(model_type, version), ModelFile(model)),
                       MetadataPath(model_type, version), MetadataFile(fields, version)))

\* base_path.glob(f"{model_type}_*.pth") (or .pkl)
GlobModelFiles(dir, model_type) ==
    LET prefix == TypeName(model_type) \o << "_" >>
        suffix == << ".", ModelSuffix(model_type) >>
    IN  {f.name : f \in {g \in dir :
            /\ Len(g.name) >= Len(prefix) + Len(suffix)
            /\ SubSeq(g.name, 1, Len(prefix)) = prefix
            /\ SubSeq(g.name, Len(g.name) - 1, Len(g.name)) = suffix}}

\* Path.stem: the name without its last suffix
Stem(name) ==
    LET dots == {i \in 1..Len(name) : name[i] = "."}
    IN  IF dots = {} \/ dots = {1} THEN name
        ELSE SubSeq(name, 1, (CHOOSE i \in dots : \A j \in dots : j <= i) - 1)

RECURSIVE Split(_, _)
\* str.split("_", maxsplit): the parts of text
Split(text, maxsplit) ==
    LET cuts == {i \in 1..Len(text) : text[i] = "_"}
    IN  IF maxsplit = 0 \/ cuts = {} THEN << text >>
        ELSE LET i == CHOOSE c \in cuts : \A d \in cuts : c <= d
             IN  << SubSeq(text, 1, i - 1) >>
                     \o Split(SubSeq(text, i + 1, Len(text)), maxsplit - 1)

\* VersionParts splitting at every "_", f.stem.split("_")
VersionParts_SplitAll(stem) == Split(stem, Len(stem))

\* f.stem.split("_", 2)
VersionParts(stem) == Split(stem, 2)

\* the code point order of the characters of a version string
CharRank(c) ==
    CASE c = "." -> 46
      [] c = "0" -> 48
      [] c = "1" -> 49
      [] c = "2" -> 50
      [] c = "9" -> 57
      [] c = "_" -> 95
      [] c = "v" -> 118

RECURSIVE StrLess(_, _)
\* Python's a < b on strings
StrLess(a, b) ==
    IF b = << >> THEN FALSE
    ELSE IF a = << >> THEN TRUE
    ELSE IF Head(a) # Head(b) THEN CharRank(Head(a)) < CharRank(Head(b))
    ELSE StrLess(Tail(a), Tail(b))

\* get_latest_model_version(model_type, base_path)
GetLatestModelVersion(dir, model_type) ==
    IF IsNone(dir) THEN None
    ELSE LET model_files == GlobModelFiles(Get(dir), model_type)
             versions == {VersionParts(Stem(f))[3] :
                             f \in {g \in model_files : Len(VersionParts(Stem(g))) >= 3}}
         IN  IF model_files = {} \/ versions = {} THEN None
             ELSE Some(CHOOSE v \in versions : \A w \in versions : w = v \/ StrLess(w, v))

\* the outcome of load_model: the pair (model, metadata) or the exception
LoadOk(model, metadata) ==
    [ok |-> TRUE, error |-> "", model |-> model, metadata |-> metadata]

LoadRaises(error) == [ok |-> FALSE, error |-> error, model |-> << >>, metadata |-> << >>]

\* MissingFields without the check of the metadata keys
MissingFields_NoCheck(metadata) == {}

\* [f for f in required_fields if f not in metadata]
MissingFields(metadata) ==
    {"input_size", "hidden_size1", "hidden_size2", "num_classes"} \ metadata.fields

\* load_model(model_type, version, base_path): version is None or Some(v)
LoadModel(dir, model_type, version) ==
    IF IsNone(dir) THEN LoadRaises("FileNotFoundError")
    ELSE LET v == IF IsNone(version) THEN GetLatestModelVersion(dir, model_type) ELSE version
         IN  IF IsNone(v) THEN LoadRaises("ValueError")
             ELSE IF ~PathExists(Get(dir), ModelPath(model_type, Get(v)))
                  THEN LoadRaises("FileNotFoundError")
             ELSE IF ~PathExists(Get(dir), MetadataPath(model_type, Get(v)))
                  THEN LoadRaises("FileNotFoundError")
             ELSE LET file == ReadFile(Get(dir), ModelPath(model_type, Get(v)))
                      metadata == ReadFile(Get(dir), MetadataPath(model_type, Get(v)))
                  IN  IF model_type = "neural_network"
                      THEN IF ~metadata.parses THEN LoadRaises("RuntimeError")
                           ELSE IF MissingFields(metadata) # {} THEN LoadRaises("ValueError")
                           ELSE IF ~file.intact THEN LoadRaises("RuntimeError")
                           ELSE LoadOk(file.model, metadata)
                      ELSE IF ~file.intact THEN LoadRaises("RuntimeError")
                           ELSE IF ~metadata.parses THEN LoadRaises("RuntimeError")
                           ELSE LoadOk(file.model, metadata)

\* metadata.get("version")
MetadataVersion(metadata) ==
    IF "version" \in metadata.fields THEN Some(metadata.version) ELSE None

\* one try block of initialize_models: the entry of results for model_type
\* and whether the module globals of that type are assigned
LoadStatus(dir, model_type) ==
    LET latest_version == GetLatestModelVersion(dir, model_type)
        file_path == IF IsNone(latest_version) THEN None
                     ELSE Some(ModelPath(model_type, Get(latest_version)))
        r == LoadModel(dir, model_type, None)
    IN  IF r.ok
        THEN [loaded |-> TRUE, version |-> MetadataVersion(r.metadata), error |-> None,
              file_path |-> file_path, metadata |-> Some(r.metadata)]
        ELSE [loaded |-> FALSE, version |-> None, error |-> Some(r.error),
              file_path |-> file_path, metadata |-> None]

\* InitializeModels giving up on the forest when the network failed to load
InitializeModels_StopAtFailure(dir) ==
    LET nn == LoadStatus(dir, "neural_network")
    IN  [neural_network |-> nn,
         random_forest |-> IF nn.loaded THEN LoadStatus(dir, "random_forest")
                           ELSE [loaded |-> FALSE, version |-> None, error |-> nn.error,
                                 file_path |-> None, metadata |-> None]]

\* initialize_models(base_path): the results dictionary
InitializeModels(dir) ==
    [neural_network |-> LoadStatus(dir, "neural_network"),
     random_forest |-> LoadStatus(dir, "random_forest")]

\* version strings: a timestamp with "_", a prefix of another version, a
\* version that is numerically but not lexicographically the greatest, and
\* one with a "."
Versions ==
    {<< "1", "_", "2" >>, << "v", "1" >>, << "v", "1", "0" >>, << "v", "9", ".", "0" >>}

\* no call of the storage functions has been recorded
NoStorageCall ==
    /\ IsNone(latest_args)
    /\ IsNone(load_args)
    /\ IsNone(initialize_result)

InitStorage ==
    /\ CacheIs(CacheConfig(None, None, None, None, None))
    /\ NoCalls
    /\ stock_table = StockIds
    /\ market_rows = StockIds
    /\ user_holding_period = "none"
    /\ recommendations = << >>
    /\ IdleRun

\* the number of model files in the directory
SavedCount == IF IsNone(model_storage) THEN 0
              ELSE Cardinality({f \in Get(model_storage) : f.content.kind = "model"})

\* save_model of a freshly trained model, known by its version tag
CallSaveModel ==
    /\ NoStorageCall
    /\ ~tampered
    /\ \E model_type \in ModelTypes, version \in Versions, has_metrics \in BOOLEAN :
         /\ IF SavedCount < MaxSaves THEN TRUE
            ELSE PathExists(Get(model_storage), ModelPath(model_type, version))
         /\ model_storage' = SaveModel(model_storage, version, model_type, version, has_metrics)
         /\ saved_versions' = saved_versions \cup {<< model_type, version >>}
    /\ UNCHANGED << cache_vars, predict_vars, confidence_vars, db_vars, recommendations,
                    run_vars, risk_vars, features_vars, labels_vars, lifecycle_vars,
                    tampered, latest_args,
                    latest_result, load_args, load_result, initialize_result >>

\* the file system's side: one file of the directory is removed, or its
\* content is overwritten by something that does not deserialize, or one
\* key is taken out of a metadata document
TamperWithFile ==
    /\ NoStorageCall
    /\ ~tampered
    /\ ~IsNone(model_storage)
    /\ \E f \in Get(model_storage) :
         \/ model_storage' = Some(Get(model_storage) \ {f})
         \/ /\ f.content.kind = "model"
            /\ model_storage' = Some(WriteFile(Get(model_storage), f.name,
                                               [f.content EXCEPT !.intact = FALSE]))
         \/ /\ f.content.kind = "json"
            /\ model_storage' = Some(WriteFile(Get(model_storage), f.name,
                                               [f.content EXCEPT !.parses = FALSE]))
         \/ /\ f.content.kind = "json"
            /\ \E key \in f.content.fields :
                 model_storage' = Some(WriteFile(Get(model_storage), f.name,
                                         [f.content EXCEPT !.fields = @ \ {key}]))
    /\ tampered' = TRUE
    /\ UNCHANGED << cache_vars, predict_vars, confidence_vars, db_vars, recommendations,
                    run_vars, risk_vars, features_vars, labels_vars, lifecycle_vars,
                    saved_versions, latest_args,
                    latest_result, load_args, load_result, initialize_result >>

CallGetLatestModelVersion ==
    /\ NoStorageCall
    /\ \E model_type \in ModelTypes :
         /\ latest_args' = Some(model_type)
         /\ latest_result' = Some(GetLatestModelVersion(model_storage, model_type))
    /\ UNCHANGED << cache_vars, predict_vars, confidence_vars, db_vars, recommendations,
                    run_vars, risk_vars, features_vars, labels_vars, lifecycle_vars,
                    model_storage, tampered,
                    saved_versions,
                    load_args, load_result, initialize_result >>

\* load_model with the version left out or given
CallLoadModel ==
    /\ NoStorageCall
    /\ \E model_type \in ModelTypes, version \in {None} \cup {Some(v) : v \in Versions} :
         /\ load_args' = Some([model_type |-> model_type, version |-> version])
         /\ load_result' = Some(LoadModel(model_storage, model_type, version))
    /\ UNCHANGED << cache_vars, predict_vars, confidence_vars, db_vars, recommendations,
                    run_vars, risk_vars, features_vars, labels_vars, lifecycle_vars,
                    model_storage, tampered,
                    saved_versions,
                    latest_args, latest_result, initialize_result >>

\* initialize_models: the module globals of a type are assigned when its
\* load succeeded and left as they were when it raised
CallInitializeModels ==
    /\ NoStorageCall
    /\ \E results \in {InitializeModels(model_storage)} :
         /\ initialize_result' = Some(results)
         /\ IF results.neural_network.loaded
            THEN /\ neural_network_model'
                        = Some(LoadModel(model_storage, "neural_network", None).model)
                 /\ neural_network_metadata' = results.neural_network.metadata
            ELSE UNCHANGED << neural_network_model, neural_network_metadata >>
         /\ IF results.random_forest.loaded
            THEN /\ random_forest_model'
                        = Some(LoadModel(model_storage, "random_forest", None).model)
                 /\ random_forest_metadata' = results.random_forest.metadata
            ELSE UNCHANGED << random_forest_model, random_forest_metadata >>
    /\ UNCHANGED << app_state_models, predict_vars, confidence_vars, db_vars, recommendations,
                    run_vars, risk_vars, features_vars, labels_vars, lifecycle_vars,
                    model_storage, tampered,
                    saved_versions,
                    latest_args, latest_result, load_args, load_result >>

NextStorage ==
    \/ CallSaveModel
    \/ TamperWithFile
    \/ CallGetLatestModelVersion
    \/ CallLoadModel
    \/ CallInitializeModels

SpecStorage == InitStorage /\ [][NextStorage]_vars

\* ------------------------------------------------------------------------
\* save_model step by step (the model file is written before the metadata
\* file, lines 458-497), with loads of the latest version in between
\* ------------------------------------------------------------------------
\* base_path.mkdir and torch.save / joblib.dump of the model (lines 458-463, 483)
SaveModelFile(dir, model, model_type, version) ==
    Some(WriteFile(IF IsNone(dir) THEN {} ELSE Get(dir),
                   ModelPath(model_type, version), ModelFile(model)))

\* json.dump of the metadata document (lines 465-479, 485-497)
SaveMetadataFile(dir, model_type, version, has_metrics) ==
    Some(WriteFile(Get(dir), MetadataPath(model_type, version),
                   MetadataFile({"model_type", "version", "training_date"}
                                    \cup ArchitectureFields(model_type)
                                    \cup (IF has_metrics THEN {"metrics"} ELSE {}),
                                version)))

InitSaveSteps ==
    /\ CacheIs(CacheConfig(None, None, None, None, None))
    /\ NoCalls
    /\ stock_table = StockIds
    /\ market_rows = StockIds
    /\ user_holding_period = "none"
    /\ recommendations = << >>
    /\ IdleRun

\* save_model up to and including the write of the model file
BeginSaveModel ==
    /\ NoStorageCall
    /\ IsNone(pending_save)
    /\ \E model_type \in ModelTypes, version \in Versions, has_metrics \in BOOLEAN :
         /\ IF SavedCount < MaxSaves THEN TRUE
            ELSE PathExists(Get(model_storage), ModelPath(model_type, version))
         /\ model_storage' = SaveModelFile(model_storage, version, model_type, version)
         /\ saved_versions' = saved_versions \cup {<< model_type, version >>}
         /\ pending_save' = Some([model_type |-> model_type, version |-> version,
                                  has_metrics |-> has_metrics])
    /\ UNCHANGED << cache_vars, predict_vars, confidence_vars, db_vars, recommendations,
                    run_vars, risk_vars, features_vars, labels_vars, accessor_result,
                    training_vars, initialize_calls, startup_pc, tampered, latest_args,
                    latest_result, load_args, load_result, initialize_result >>

\* the rest of save_model: the write of the metadata file
FinishSaveModel ==
    /\ NoStorageCall
    /\ ~IsNone(pending_save)
    /\ model_storage' = SaveMetadataFile(model_storage, Get(pending_save).model_type,
                                         Get(pending_save).version,
                                         Get(pending_save).has_metrics)
    /\ pending_save' = None
    /\ UNCHANGED << cache_vars, predict_vars, confidence_vars, db_vars, recommendations,
                    run_vars, risk_vars, features_vars, labels_vars, accessor_result,
                    training_vars, initialize_calls, startup_pc, tampered, saved_versions,
                    latest_args, latest_result, load_args, load_result, initialize_result >>

\* load_model(model_type) with the version left out, by another process or
\* thread than the one saving
CallLoadLatestModel ==
    /\ NoStorageCall
    /\ \E model_type \in ModelTypes :
         /\ load_args' = Some([model_type |-> model_type, version |-> None])
         /\ load_result' = Some(LoadModel(model_storage, model_type, None))
    /\ UNCHANGED << cache_vars, predict_vars, confidence_vars, db_vars, recommendations,
                    run_vars, risk_vars, features_vars, labels_vars, lifecycle_vars,
                    model_storage, tampered, saved_versions, latest_args, latest_result,
                    initialize_result >>

NextSaveSteps == BeginSaveModel \/ FinishSaveModel \/ CallLoadLatestModel

SpecSaveSteps == InitSaveSteps /\ [][NextSaveSteps]_vars

\* ------------------------------------------------------------------------
\* initialize_models called again in the same process, after artifacts were
\* saved, removed or damaged (ml_service.py 920-1088)
\* ------------------------------------------------------------------------
InitReload ==
    /\ CacheIs(CacheConfig(None, None, None, None, None))
    /\ NoCalls
    /\ stock_table = StockIds
    /\ market_rows = StockIds
    /\ user_holding_period = "none"
    /\ recommendations = << >>
    /\ IdleRun

\* save_model of a newly trained model of the version
StoreArtifact ==
    /\ ~tampered
    /\ \E model_type \in ModelTypes, version \in {<< "v", "1" >>, << "v", "1", "0" >>} :
         /\ IF SavedCount < MaxSaves THEN TRUE
            ELSE PathExists(Get(model_storage), ModelPath(model_type, version))
         /\ ~(<< model_type, version >> \in saved_versions)
         /\ model_storage' = SaveModel(model_storage, version, model_type, version, TRUE)
         /\ saved_versions' = saved_versions \cup {<< model_type, version >>}
    /\ UNCHANGED << cache_vars, predict_vars, confidence_vars, db_vars, recommendations,
                    run_vars, risk_vars, features_vars, labels_vars, lifecycle_vars,
                    tampered, latest_args, latest_result, load_args, load_result,
                    initialize_result >>

\* a file of the directory is removed, or a model file is overwritten by
\* something that does not deserialize
DamageArtifact ==
    /\ ~tampered
    /\ ~IsNone(model_storage)
    /\ \E f \in Get(model_storage) :
         \/ model_storage' = Some(Get(model_storage) \ {f})
         \/ /\ f.content.kind = "model"
            /\ model_storage' = Some(WriteFile(Get(model_storage), f.name,
                                               [f.content EXCEPT !.intact = FALSE]))
    /\ tampered' = TRUE
    /\ UNCHANGED << cache_vars, predict_vars, confidence_vars, db_vars, recommendations,
                    run_vars, risk_vars, features_vars, labels_vars, lifecycle_vars,
                    saved_versions, latest_args, latest_result, load_args, load_result,
                    initialize_result >>

\* initialize_models: the results dictionary starts afresh at every call;
\* the module globals of a type are assigned when its load succeeded and
\* keep their value when it raised (lines 982-984, 995-1008)
RunInitializeModels ==
    /\ initialize_calls < MaxInits
    /\ initialize_calls' = initialize_calls + 1
    /\ \E results \in {InitializeModels(model_storage)} :
         /\ initialize_result' = Some(results)
         /\ IF results.neural_network.loaded
            THEN /\ neural_network_model'
                        = Some(LoadModel(model_storage, "neural_network", None).model)
                 /\ neural_network_metadata' = results.neural_network.metadata
            ELSE UNCHANGED << neural_network_model, neural_network_metadata >>
         /\ IF results.random_forest.loaded
            THEN /\ random_forest_model'
                        = Some(LoadModel(model_storage, "random_forest", None).model)
                 /\ random_forest_metadata' = results.random_forest.metadata
            ELSE UNCHANGED << random_forest_model, random_forest_metadata >>
    /\ UNCHANGED << app_state_models, predict_vars, confidence_vars, db_vars, recommendations,
                    run_vars, risk_vars, features_vars, labels_vars, accessor_result,
                    training_vars, pending_save, startup_pc, model_storage, tampered,
                    saved_versions, latest_args, latest_result, load_args, load_result >>

NextReload == StoreArtifact \/ DamageArtifact \/ RunInitializeModels

SpecReload == InitReload /\ [][NextReload]_vars

\* ------------------------------------------------------------------------
\* train_models: the version of a run and its save_model calls
\* (ml_service.py 771-912)
\* ------------------------------------------------------------------------
Digits == << "0", "1", "2", "3", "4", "5", "6", "7", "8", "9" >>

\* datetime.now(timezone.utc).strftime("%Y%m%d_%H%M%S") at second now of
\* one day: the date, "_", and the time, which changes with the second only
TimestampVersion(now) == << "2", "0", "_", Digits[(now % 10) + 1] >>

\* the model a training run produces is known by the number of the run
TrainedModel(run) == << "run", run >>

\* the (stock_id, timestamp) of the observation each row of the matrix of
\* prepare_feature_vectors is computed for: the stocks in order of first
\* appearance, stocks of fewer than two observations left out, the
\* observations of a stock by timestamp (lines 160-181)
RECURSIVE FeatureObservations(_, _)
FeatureObservations(market_data, ids) ==
    IF ids = << >> THEN << >>
    ELSE LET stock_market == RowsOfStock(market_data, ids[Len(ids)])
         IN  FeatureObservations(market_data, SubSeq(ids, 1, Len(ids) - 1))
             \o (IF Len(stock_market) < 2 THEN << >>
                 ELSE [i \in 1..Len(stock_market) |->
                          << stock_market[i].stock_id, stock_market[i].timestamp >>])

\* the (stock_id, timestamp) of the observation each label of
\* _generate_labels is computed for: one label per row of the frame sorted
\* by stock id and timestamp (lines 738-745)
LabelObservations(market_data) ==
    LET df == SortByStockAndTimestamp(market_data)
    IN  [i \in 1..Len(df) |-> << df[i].stock_id, df[i].timestamp >>]

\* steps 2 and 3 of train_models (lines 816-829): X and y, cut to the
\* shorter of the two, as the observations row i of X and label i of y are of
TrainingPairs(market_data) ==
    LET X == FeatureObservations(market_data, UniqueStockIds(market_data))
        y == LabelObservations(market_data)
        min_len == IF Len(X) <= Len(y) THEN Len(X) ELSE Len(y)
    IN  [i \in 1..min_len |-> [x |-> X[i], y |-> y[i]]]

\* the directory after train_models(version, train_neural_network,
\* train_random_forest_model) of run number run started at second now;
\* without training data, or without a feature vector, the run raises
\* ValueError before it saves anything (lines 813-820)
TrainModels(dir, run, now, version, market_data, train_neural_network, train_random_forest_model) ==
    LET v == IF IsNone(version) THEN TimestampVersion(now) ELSE Get(version)
        after_nn == IF train_neural_network
                    THEN SaveModel(dir, TrainedModel(run), "neural_network", v, TRUE)
                    ELSE dir
    IN  IF market_data = << >> THEN dir
        ELSE IF FeatureObservations(market_data, UniqueStockIds(market_data)) = << >> THEN dir
        ELSE IF train_random_forest_model
             THEN SaveModel(after_nn, TrainedModel(run), "random_forest", v, TRUE)
             ELSE after_nn

\* training sets load_training_data returns: stock by stock in the order of
\* get_all_stocks, each stock's observations by timestamp
TrainingSets ==
    {<< >>,
     << MarketObs("s1", 1, 100, 10) >>,
     << MarketObs("s1", 1, 100, 10), MarketObs("s1", 2, 110, 10),
        MarketObs("s2", 1, 50, 10), MarketObs("s2", 2, 40, 10) >>,
     << MarketObs("s1", 1, 100, 10),
        MarketObs("s2", 1, 50, 10), MarketObs("s2", 2, 40, 10) >>,
     << MarketObs("s2", 1, 50, 10), MarketObs("s2", 2, 40, 10),
        MarketObs("s1", 1, 100, 10), MarketObs("s1", 2, 110, 10) >>}

InitTraining ==
    /\ CacheIs(CacheConfig(None, None, None, None, None))
    /\ NoCalls
    /\ stock_table = StockIds
    /\ market_rows = StockIds
    /\ user_holding_period = "none"
    /\ recommendations = << >>
    /\ IdleRun

\* a run of scripts/train_models.py (no version given) or a call with a
\* version tag
CallTrainModels ==
    /\ training_runs < MaxRuns
    /\ \E version \in {None, Some(<< "v", "1" >>)}, market_data \in TrainingSets,
          train_neural_network \in BOOLEAN, train_random_forest_model \in BOOLEAN :
         /\ model_storage' = TrainModels(model_storage, training_runs + 1, clock, version,
                                         market_data, train_neural_network,
                                         train_random_forest_model)
         /\ training_set' = Some([market_data |-> market_data,
                                  pairs |-> TrainingPairs(market_data)])
    /\ training_runs' = training_runs + 1
    /\ UNCHANGED << cache_vars, predict_vars, confidence_vars, db_vars, recommendations,
                    run_vars, risk_vars, features_vars, labels_vars, tampered,
                    saved_versions, latest_args, latest_result, load_args, load_result,
                    initialize_result, accessor_result, save_vars, startup_pc >>

\* a second passes
TickSecond ==
    /\ clock < MaxSecond
    /\ clock' = clock + 1
    /\ UNCHANGED << cache_vars, predict_vars, confidence_vars, db_vars, recommendations,
                    pc, daily_target_count, market_conditions, holding_pref, stocks, pos,
                    scoring, candidates, returned, helper_vars >>

NextTraining == CallTrainModels \/ TickSecond

SpecTraining == InitTraining /\ [][NextTraining]_vars

\* ------------------------------------------------------------------------
\* The accessors of the cached models (ml_service.py 1091-1194), called in
\* every shape of the two stores
\* ------------------------------------------------------------------------
\* a module global or an entry of app.state.models: empty, or the artifact v
StoreEntries(v) == {None, Loaded(v)}

StoreMetadata(v) == {None, Some(Metadata(v, Metrics(None, Some(80))))}

\* the module globals hold artifacts of version v1, app.state.models is
\* unset or a dictionary of the four keys holding artifacts of version v2
AccessorCacheConfigs ==
    {CacheConfig(nn, nn_meta, rf, rf_meta, app) :
        nn \in StoreEntries("v1"), nn_meta \in StoreMetadata("v1"),
        rf \in StoreEntries("v1"), rf_meta \in StoreMetadata("v1"),
        app \in {None} \cup {AppState(a, am, b, bm) :
                                a \in StoreEntries("v2"), am \in StoreMetadata("v2"),
                                b \in StoreEntries("v2"), bm \in StoreMetadata("v2")}}

InitAccessors ==
    /\ \E c \in AccessorCacheConfigs : CacheIs(c)
    /\ NoCalls
    /\ stock_table = StockIds
    /\ market_rows = StockIds
    /\ user_holding_period = "none"
    /\ recommendations = << >>
    /\ IdleRun

\* the four accessors and are_models_loaded, called one after the other
CallModelAccessors ==
    /\ IsNone(accessor_result)
    /\ accessor_result' = Some([neural_network |-> GetNeuralNetworkModel,
                                random_forest |-> GetRandomForestModel,
                                neural_network_metadata |-> GetNeuralNetworkMetadata,
                                random_forest_metadata |-> GetRandomForestMetadata,
                                are_models_loaded |-> AreModelsLoaded])
    /\ UNCHANGED << cache_vars, predict_vars, confidence_vars, db_vars, recommendations,
                    run_vars, risk_vars, features_vars, labels_vars, storage_vars,
                    training_vars, save_vars, startup_pc >>

NextAccessors == CallModelAccessors

SpecAccessors == InitAccessors /\ [][NextAccessors]_vars

\* ------------------------------------------------------------------------
\* lifetime.startup: the scheduler is started, then initialize_models runs in
\* a worker thread, then the models are stored in app.state (lifetime.py
\* 28-196).  The jobs of the scheduler run on the event loop while the
\* worker thread assigns the module globals one after the other; nothing
\* synchronizes the two threads.
\* ------------------------------------------------------------------------
\* the directories the process is started with
StartupDirectories ==
    LET nn1 == SaveModel(None, << "v", "1" >>, "neural_network", << "v", "1" >>, TRUE)
        rf1 == SaveModel(None, << "v", "1" >>, "random_forest", << "v", "1" >>, TRUE)
        both == SaveModel(nn1, << "v", "1" >>, "random_forest", << "v", "1" >>, TRUE)
        later == SaveModel(both, << "v", "1", "0" >>, "neural_network", << "v", "1", "0" >>,
                           FALSE)
    IN  {None, nn1, rf1, both, later,
         Some({f \in Get(both) : f.name # MetadataPath("neural_network", << "v", "1" >>)}),
         Some({f \in Get(both) : f.name # ModelPath("random_forest", << "v", "1" >>)})}

InitStartup ==
    /\ CacheIs(CacheConfig(None, None, None, None, None))
    /\ predict_args = None
    /\ predict_result = None
    /\ confidence_args = None
    /\ confidence_result = None
    /\ risk_args = None
    /\ risk_result = None
    /\ features_args = None
    /\ features_result = None
    /\ labels_args = None
    /\ labels_result = None
    /\ model_storage \in StartupDirectories
    /\ tampered = FALSE
    /\ saved_versions = {}
    /\ latest_args = None
    /\ latest_result = None
    /\ load_args = None
    /\ load_result = None
    /\ initialize_result = None
    /\ accessor_result = None
    /\ training_runs = 0
    /\ training_set = None
    /\ pending_save = None
    /\ initialize_calls = 0
    /\ startup_pc = "scheduler_started"
    /\ stock_table = StockIds
    /\ market_rows = StockIds
    /\ user_holding_period = "none"
    /\ recommendations = << >>
    /\ IdleRun

\* what a step of the startup leaves alone besides the cache
startup_rest == << predict_vars, confidence_vars, db_vars, recommendations, run_vars,
                   risk_vars, features_vars, labels_vars, storage_vars, accessor_result,
                   training_vars, pending_save >>

\* the worker thread, first target of
\* "_neural_network_model, _neural_network_metadata = load_model(...)":
\* load_model returned and the model global is assigned; when load_model
\* raised the except branch is taken and nothing is assigned
StoreNeuralNetworkModel ==
    /\ startup_pc = "scheduler_started"
    /\ \E r \in {LoadModel(model_storage, "neural_network", None)} :
         IF r.ok
         THEN /\ neural_network_model' = Some(r.model)
              /\ startup_pc' = "nn_model_stored"
         ELSE /\ startup_pc' = "nn_done"
              /\ UNCHANGED neural_network_model
    /\ UNCHANGED << neural_network_metadata, random_forest_model, random_forest_metadata,
                    app_state_models, initialize_calls, startup_rest >>

\* the second target of the same assignment
StoreNeuralNetworkMetadata ==
    /\ startup_pc = "nn_model_stored"
    /\ neural_network_metadata' = Some(LoadModel(model_storage, "neural_network", None).metadata)
    /\ startup_pc' = "nn_done"
    /\ UNCHANGED << neural_network_model, random_forest_model, random_forest_metadata,
                    app_state_models, initialize_calls, startup_rest >>

\* "_random_forest_model, _random_forest_metadata = load_model(...)", first
\* target
StoreRandomForestModel ==
    /\ startup_pc = "nn_done"
    /\ \E r \in {LoadModel(model_storage, "random_forest", None)} :
         IF r.ok
         THEN /\ random_forest_model' = Some(r.model)
              /\ startup_pc' = "rf_model_stored"
         ELSE /\ startup_pc' = "rf_done"
              /\ UNCHANGED random_forest_model
    /\ UNCHANGED << neural_network_model, neural_network_metadata, random_forest_metadata,
                    app_state_models, initialize_calls, startup_rest >>

\* the second target
StoreRandomForestMetadata ==
    /\ startup_pc = "rf_model_stored"
    /\ random_forest_metadata' = Some(LoadModel(model_storage, "random_forest", None).metadata)
    /\ startup_pc' = "rf_done"
    /\ UNCHANGED << neural_network_model, neural_network_metadata, random_forest_model,
                    app_state_models, initialize_calls, startup_rest >>

\* startup after initialize_models returned: when a model was loaded the
\* module globals are copied into app.state.models (lifetime.py 160-196)
StoreInAppState ==
    /\ startup_pc = "rf_done"
    /\ startup_pc' = "ready"
    /\ initialize_calls' = initialize_calls + 1
    /\ \E results \in {InitializeModels(model_storage)} :
         /\ initialize_result' = Some(results)
         /\ app_state_models' =
                IF results.neural_network.loaded \/ results.random_forest.loaded
                THEN AppState(neural_network_model, neural_network_metadata,
                              random_forest_model, random_forest_metadata)
                ELSE app_state_models
    /\ UNCHANGED << neural_network_model, neural_network_metadata, random_forest_model,
                    random_forest_metadata, predict_vars, confidence_vars, db_vars,
                    recommendations, run_vars, risk_vars, features_vars, labels_vars,
                    model_storage, tampered, saved_versions, latest_args, latest_result,
                    load_args, load_result, accessor_result, training_vars, pending_save >>

\* a job of the scheduler, or a request, calls the accessors: CallModelAccessors
NextStartup ==
    \/ StoreNeuralNetworkModel
    \/ StoreNeuralNetworkMetadata
    \/ StoreRandomForestModel
    \/ StoreRandomForestMetadata
    \/ StoreInAppState
    \/ CallModelAccessors

SpecStartup == InitStartup /\ [][NextStartup]_vars

\* ------------------------------------------------------------------------
\* Properties of _calculate_confidence_score (SpecConfidence)
\* ------------------------------------------------------------------------
\* the base the calibrator is to use: R^2, else accuracy, else 0.5
ExpectedBase(metrics) ==
    IF metrics.r_squared # None THEN metrics.r_squared[1]
    ELSE IF metrics.accuracy # None THEN metrics.accuracy[1]
    ELSE 50

\* C10: the result of _calculate_confidence_score is base * (0.5 + 0.5 p)
\* clamped to [0, 1], with base the stored R^2, else the stored accuracy,
\* else 0.5; it lies in [0, 1] and does not decrease when base or p grows.
C10_ConfidenceClampedMonotone ==
    ~IsNone(confidence_result) =>
        LET m == Get(confidence_args).metrics
            p == Get(confidence_args).probability
            r == Get(confidence_result)
            \* base * (0.5 + 0.5 p) = raw / (200 * ProbDen)
            raw == ExpectedBase(m) * (ProbDen + p)
            den == 200 * ProbDen
        IN  /\ r[2] > 0
            /\ raw < 0 => r[1] = 0
            /\ raw > den => r[1] = r[2]
            /\ (0 <= raw /\ raw <= den) => r[1] * den = raw * r[2]
            /\ 0 <= r[1] /\ r[1] <= r[2]
            /\ \A p2 \in p..ProbDen : FracLE(r, CalculateConfidenceScore(m, p2))
            /\ \A r2 \in OptionalBases, acc \in OptionalBases :
                 ExpectedBase(Metrics(r2, acc)) >= ExpectedBase(m)
                 => FracLE(r, CalculateConfidenceScore(Metrics(r2, acc), p))

\* a call with both metrics stored, where the R^2 (0.80) decides, not the
\* accuracy (0.40): 0.80 * (0.5 + 0.5 * 1) = 4/5
C10_Witness ==
    /\ ~IsNone(confidence_result)
    /\ Get(confidence_args).metrics = Metrics(Some(80), Some(40))
    /\ Get(confidence_args).probability = ProbDen
    /\ Get(confidence_result) = << 4, 5 >>

\* ------------------------------------------------------------------------
\* Properties of predict_stock (SpecPredict)
\* ------------------------------------------------------------------------
\* a model is loaded when the module global or app.state.models holds it
NeuralNetworkLoaded ==
    \/ neural_network_model # None
    \/ app_state_models # None /\ app_state_models[1].neural_network # None

RandomForestLoaded ==
    \/ random_forest_model # None
    \/ app_state_models # None /\ app_state_models[1].random_forest # None

\* the call got as far as the inference step: a feature vector was built
ReachedInference ==
    /\ ~IsNone(predict_result)
    /\ Get(predict_args).has_latest
    /\ Get(predict_args).hist_len >= 2

\* C8: with both models loaded, if exactly one model's inference raises the
\* result is the other model's prediction alone and model_used names that
\* model; if both inferences raise, or the only loaded model's inference
\* raises, or no model is loaded, predict_stock ends with an error and
\* gives no prediction.
C8_InferenceDegradation ==
    ReachedInference =>
        LET a == Get(predict_args)
            r == Get(predict_result)
            nn_raised == NeuralNetworkLoaded /\ a.nn_out = None
            rf_raised == RandomForestLoaded /\ a.rf_out = None
        IN  /\ (NeuralNetworkLoaded /\ RandomForestLoaded /\ nn_raised /\ ~rf_raised) =>
                /\ r.ok
                /\ r.model_used = "random_forest"
                /\ r.neural_network_prediction = None
                /\ r.random_forest_prediction # None
                /\ r.signal = ClassToSignal(ArgMax(a.rf_out[1]))
                /\ r.confidence_score = r.random_forest_prediction[1].confidence_score
            /\ (NeuralNetworkLoaded /\ RandomForestLoaded /\ ~nn_raised /\ rf_raised) =>
                /\ r.ok
                /\ r.model_used = "neural_network"
                /\ r.random_forest_prediction = None
                /\ r.neural_network_prediction # None
                /\ r.signal = ClassToSignal(ArgMax(a.nn_out[1]))
                /\ r.confidence_score = r.neural_network_prediction[1].confidence_score
            /\ (NeuralNetworkLoaded /\ RandomForestLoaded /\ nn_raised /\ rf_raised) =>
                r = PredictError("InferenceError")
            /\ (NeuralNetworkLoaded /\ ~RandomForestLoaded /\ nn_raised) =>
                r = PredictError("InferenceError")
            /\ (~NeuralNetworkLoaded /\ RandomForestLoaded /\ rf_raised) =>
                r = PredictError("InferenceError")
            /\ (~NeuralNetworkLoaded /\ ~RandomForestLoaded) =>
                r = PredictError("ModelNotLoadedError")
            /\ ~r.ok => r.signal = "" /\ r.model_used = ""

\* both models loaded, the neural network raises, the forest answers "sell"
C8_Witness ==
    /\ ReachedInference
    /\ NeuralNetworkLoaded /\ RandomForestLoaded
    /\ Get(predict_args).use_ensemble
    /\ Get(predict_args).nn_out = None
    /\ Get(predict_args).rf_out = Some(<< 0, 1, ProbDen - 1 >>)
    /\ Get(predict_result).ok
    /\ Get(predict_result).model_used = "random_forest"
    /\ Get(predict_result).signal = "sell"

\* the call combined the two models' predictions
EnsembleUsed ==
    /\ ~IsNone(predict_result)
    /\ Get(predict_result).ok
    /\ Get(predict_result).model_used = "ensemble"

\* C9: in the ensemble each model is weighted by confidence * max(probabilities).
\* With a total weight above 0 the combined probabilities and the final
\* confidence are the weight-averaged values and the class is the argmax of
\* the combined probabilities; with a total weight of 0 the combination is
\* the unweighted mean of the probability vectors and of the confidences.
\* Stated in integers: with confidences a1/b1 and a2/b2 and largest
\* probabilities m1 and m2, the weights are W1 : W2 = a1*m1*b2 : a2*m2*b1.
C9_EnsembleWeights ==
    EnsembleUsed =>
        LET r == Get(predict_result)
            nn == r.neural_network_prediction[1]
            rf == r.random_forest_prediction[1]
            a1 == nn.confidence_score[1]
            b1 == nn.confidence_score[2]
            a2 == rf.confidence_score[1]
            b2 == rf.confidence_score[2]
            W1 == a1 * Max3(nn.probabilities) * b2
            W2 == a2 * Max3(rf.probabilities) * b1
            \* numerators of the combined probabilities over a common denominator
            num == IF W1 + W2 > 0
                   THEN [k \in 1..3 |-> nn.probabilities[k] * W1 + rf.probabilities[k] * W2]
                   ELSE [k \in 1..3 |-> nn.probabilities[k] + rf.probabilities[k]]
            den == IF W1 + W2 > 0 THEN (W1 + W2) * ProbDen ELSE 2 * ProbDen
            e == EnsembleCombine(nn, rf)
            c == r.confidence_score
        IN  /\ W1 >= 0 /\ W2 >= 0 /\ b1 > 0 /\ b2 > 0
            /\ \A k \in 1..3 : e.probabilities[k][1] * den = num[k] * e.probabilities[k][2]
            /\ r.signal = ClassToSignal(ArgMax(num))
            /\ c[2] > 0
            /\ W1 + W2 > 0 => c[1] * (b1 * b2 * (W1 + W2)) = (a1 * b2 * W1 + a2 * b1 * W2) * c[2]
            /\ W1 + W2 = 0 => c[1] * (2 * b1 * b2) = (a1 * b2 + a2 * b1) * c[2]

\* an ensemble of two models whose stored accuracy is 0: both weights are 0
\* and the halves of "hold" and "buy" tie, so the first class decides
C9_Witness ==
    /\ EnsembleUsed
    /\ Get(predict_args).nn_out = Some(<< ProbDen, 0, 0 >>)
    /\ Get(predict_args).rf_out = Some(<< 0, ProbDen, 0 >>)
    /\ Get(predict_result).neural_network_prediction[1].confidence_score = Zero
    /\ Get(predict_result).random_forest_prediction[1].confidence_score = Zero
    /\ Get(predict_result).confidence_score = Zero
    /\ Get(predict_result).signal = "hold"

\* ------------------------------------------------------------------------
\* Properties of generate_recommendations (Spec)
\* ------------------------------------------------------------------------
\* the step just taken scored one entity
ScoredOne == pos' = pos + 1

\* the step just taken appended the scored entity to the candidates
Appended ==
    /\ Len(candidates') = Len(candidates) + 1
    /\ candidates'[Len(candidates')].stock_id = scoring'.stock_id

\* the earlier candidates are all kept, in place
EarlierKept == SubSeq(candidates', 1, Len(candidates)) = candidates

\* predict_stock raises on this input: no feature vector can be built, or
\* the inference of every loaded model raises
PredictionRaised(in) ==
    \/ in.hist_len < 2
    \/ /\ NeuralNetworkLoaded => in.nn_out = None
       /\ RandomForestLoaded => in.rf_out = None

\* some step of the scoring of this input raised an exception
StepRaised(in) ==
    PredictionRaised(in) \/ in.agg_raises \/ in.vol = None \/ in.risk_raises \/ in.expl_raises

\* the volatility the filter sees: 0 when the history query fails
SeenVolatility(in) == IF in.vol = None THEN 0 ELSE in.vol[1]

\* the band of a holding-period preference, volatility in hundredths
InBand(pref, vol) ==
    /\ pref = "daily" => vol >= 5
    /\ pref = "weekly" => (2 <= vol /\ vol <= 60)
    /\ pref = "monthly" => vol <= 40

\* a ranks strictly before b: confidence descending, then sentiment
\* descending, then risk ascending with low < medium < high
RiskOrder == << "low", "medium", "high" >>

RiskIndex(r) == CHOOSE i \in 1..3 : RiskOrder[i] = r

RanksBefore(conf_a, sent_a, risk_a, conf_b, sent_b, risk_b) ==
    \/ conf_a[1] * conf_b[2] > conf_b[1] * conf_a[2]
    \/ /\ conf_a = conf_b
       /\ sent_a > sent_b
    \/ /\ conf_a = conf_b
       /\ sent_a = sent_b
       /\ RiskIndex(risk_a) < RiskIndex(risk_b)

\* the entities eligible for scoring in this database
EligibleCount == Cardinality({s \in stock_table : s \in market_rows})

\* C1 as stated: an exception in any scoring step (prediction, sentiment,
\* volatility, risk, explanation) is caught and the entity excluded, and the
\* batch is never aborted.
C1_Original ==
    [][/\ pc' # "raised"
       /\ ScoredOne => /\ EarlierKept
                       /\ StepRaised(scoring'.input) => candidates' = candidates]_vars

\* C1 (amended): no exception while scoring one entity aborts the batch. An
\* exception of the prediction or of the explanation step excludes the
\* entity; an exception of the sentiment lookup, of the volatility
\* computation or of the risk computation is absorbed by a default
\* (sentiment 0, volatility 0, risk medium) and the entity is scored with it.
\* Every entity that is predicted, passes the volatility filter and gets an
\* explanation becomes a candidate, the earlier candidates are kept, and the
\* loop visits every eligible entity.
C1_ScoringFailureIsolated ==
    [][/\ pc' # "raised"
       /\ ScoredOne =>
            LET in == scoring'.input
            IN  /\ EarlierKept
                /\ Appended \/ candidates' = candidates
                /\ (PredictionRaised(in) \/ in.expl_raises) => candidates' = candidates
                /\ (/\ ~PredictionRaised(in)
                    /\ ~in.expl_raises
                    /\ InBand(holding_pref, SeenVolatility(in))) =>
                        /\ Appended
                        /\ (in.agg_raises \/ in.agg = None) =>
                               candidates'[Len(candidates')].sentiment = 0
                        /\ in.risk_raises =>
                               candidates'[Len(candidates')].risk_level = "medium"
       /\ (pc = "scoring" /\ pc' = "done") => pos - 1 = EligibleCount]_vars

\* three entities scored for a user without preference: the first became a
\* candidate, the second failed, and the third is a candidate although its
\* sentiment lookup raised
C1_Witness ==
    /\ pc = "scoring"
    /\ pos = 4
    /\ holding_pref = "none"
    /\ Len(candidates) = 2
    /\ candidates[1].stock_id = stocks[1]
    /\ candidates[2].stock_id = stocks[3]
    /\ scoring.stock_id = stocks[3]
    /\ scoring.input.agg_raises
    /\ candidates[2].sentiment = 0

\* C2: in the returned list every adjacent pair (a, b) has a.confidence >
\* b.confidence, or equal confidences and a.sentiment > b.sentiment, or both
\* equal and rank(a.risk) <= rank(b.risk) with low < medium < high.
C2_ReturnedOrdered ==
    pc = "done" =>
        \A i \in 1..(Len(returned) - 1) :
            LET a == returned[i]
                b == returned[i + 1]
            IN  \/ a.confidence_score[1] * b.confidence_score[2]
                     > b.confidence_score[1] * a.confidence_score[2]
                \/ /\ a.confidence_score = b.confidence_score
                   /\ a.sentiment_score > b.sentiment_score
                \/ /\ a.confidence_score = b.confidence_score
                   /\ a.sentiment_score = b.sentiment_score
                   /\ RiskIndex(a.risk_level) <= RiskIndex(b.risk_level)

\* three recommendations that tie on confidence and sentiment are returned
\* in the order low, medium, high
C2_Witness ==
    /\ pc = "done"
    /\ Len(returned) = 3
    /\ returned[1].confidence_score = returned[3].confidence_score
    /\ returned[2].confidence_score = returned[3].confidence_score
    /\ returned[1].sentiment_score = returned[3].sentiment_score
    /\ returned[2].sentiment_score = returned[3].sentiment_score
    /\ returned[1].risk_level = "low"
    /\ returned[2].risk_level = "medium"
    /\ returned[3].risk_level = "high"

\* the candidate records of the run, as a set
CandidateSet == {candidates[i] : i \in 1..Len(candidates)}

\* C3 as stated, by its conclusion: the ranking is a strict total order of
\* the candidates by (confidence desc, sentiment desc, risk asc), so the
\* selected top N are the same entities for every order in which the same
\* entities are iterated.
C3_Original ==
    (pc = "done" /\ candidates # << >>) =>
        \A order \in Orderings(CandidateSet) :
            LET top == SelectTop(SortCandidates(order), daily_target_count)
            IN  {top[i].stock_id : i \in 1..Len(top)}
                    = {returned[i].stock_id : i \in 1..Len(returned)}

\* C4: for a target count N >= 0 exactly min(N, number of surviving
\* candidates) recommendations are returned, each for a different survivor,
\* and no survivor left out ranks strictly before a returned one.
C4_ReturnsTopN ==
    (pc = "done" /\ daily_target_count >= 0) =>
        LET N == daily_target_count
            survivors == Len(candidates)
            chosen == {returned[i].stock_id : i \in 1..Len(returned)}
        IN  /\ Len(returned) = IF N < survivors THEN N ELSE survivors
            /\ Cardinality(chosen) = Len(returned)
            /\ \A i \in 1..Len(returned) :
                  \E c \in CandidateSet :
                      /\ c.stock_id = returned[i].stock_id
                      /\ c.confidence = returned[i].confidence_score
                      /\ c.sentiment = returned[i].sentiment_score
                      /\ c.risk_level = returned[i].risk_level
            /\ \A c \in CandidateSet :
                  c.stock_id \notin chosen =>
                      \A i \in 1..Len(returned) :
                          ~RanksBefore(c.confidence, c.sentiment, c.risk_level,
                                       returned[i].confidence_score,
                                       returned[i].sentiment_score,
                                       returned[i].risk_level)

\* three survivors, two asked for: two are returned, and the one left out
\* has the lowest sentiment
C4_Witness ==
    /\ pc = "done"
    /\ daily_target_count = 2
    /\ Len(candidates) = 3
    /\ Len(returned) = 2
    /\ \E c \in CandidateSet :
          /\ \A i \in 1..2 : returned[i].stock_id # c.stock_id
          /\ \A i \in 1..2 : returned[i].sentiment_score > c.sentiment

\* C5: when the universe is empty, no model is loaded in either cache, or
\* no market data exists at all, generate_recommendations returns the empty
\* list without raising, adds no record and scores nothing; and no entity
\* without a market observation is ever scored.
C5_EmptyResultAndEligibility ==
    /\ pc # "raised"
    /\ (/\ pc = "done"
        /\ \/ stock_table = {}
           \/ ~(NeuralNetworkLoaded \/ RandomForestLoaded)
           \/ market_rows = {}) =>
            /\ returned = << >>
            /\ recommendations = << EarlierRow("s1") >>
            /\ candidates = << >>
            /\ pos = 1
    /\ \A i \in 1..Len(stocks) : stocks[i] \in market_rows
    /\ scoring.stock_id # "" => scoring.stock_id \in market_rows

\* a run with a full universe and market data but no model in the module
\* cache or in the application state ends empty-handed
C5_Witness ==
    /\ pc = "done"
    /\ stock_table = StockIds
    /\ market_rows = StockIds
    /\ neural_network_model = None /\ random_forest_model = None
    /\ app_state_models # None
    /\ ~(NeuralNetworkLoaded \/ RandomForestLoaded)
    /\ returned = << >>
    /\ recommendations = << EarlierRow("s1") >>

\* C6: an entity becomes a candidate only if its trailing volatility lies in
\* the band of the user's holding-period preference (daily: >= 0.05; weekly:
\* 0.02 to 0.6; monthly: <= 0.4), every returned recommendation is for a
\* candidate, and without a preference no entity that is predicted and
\* explained is rejected.
C6_VolatilityBands ==
    [][/\ ScoredOne =>
            LET in == scoring'.input
            IN  /\ candidates' # candidates =>
                    (Appended /\ InBand(holding_pref, SeenVolatility(in)))
                /\ (holding_pref = "none" /\ ~PredictionRaised(in) /\ ~in.expl_raises) =>
                    Appended
       /\ ~ScoredOne => {candidates'[i].stock_id : i \in 1..Len(candidates')}
                            = {candidates[i].stock_id : i \in 1..Len(candidates)}
       /\ \A i \in 1..Len(returned') :
              \E j \in 1..Len(candidates') : candidates'[j].stock_id = returned'[i].stock_id]_vars

\* a weekly user: an entity with volatility 0.61 was just rejected while one
\* with volatility 0.6 is among the candidates
C6_Witness ==
    /\ pc = "scoring"
    /\ holding_pref = "weekly"
    /\ pos = 3
    /\ Len(candidates) = 1
    /\ candidates[1].stock_id = stocks[1]
    /\ scoring.stock_id = stocks[2]
    /\ scoring.input.vol = Some(61)
    /\ scoring.outcome = "filtered"

\* C7: the recommendation history is append-only: a step never changes or
\* removes a stored record; a run adds one record per selected candidate,
\* all with the created_at of that run.
C7_HistoryAppendOnly ==
    [][/\ Len(recommendations') >= Len(recommendations)
       /\ SubSeq(recommendations', 1, Len(recommendations)) = recommendations
       /\ recommendations' # recommendations =>
            /\ Len(recommendations') = Len(recommendations) + Len(returned')
            /\ Len(returned') = Len(SelectTop(candidates', daily_target_count))
            /\ \A i \in 1..Len(returned') :
                  /\ recommendations'[Len(recommendations) + i] = returned'[i]
                  /\ returned'[i].created_at = returned'[1].created_at
                  /\ returned'[i].stock_id = candidates'[i].stock_id]_vars

\* after a run the record of the earlier run is still first, unchanged, and
\* two records with one shared created_at follow it
C7_Witness ==
    /\ pc = "done"
    /\ Len(recommendations) = 3
    /\ recommendations[1] = EarlierRow("s1")
    /\ recommendations[2].created_at = recommendations[3].created_at
    /\ recommendations[2].created_at # recommendations[1].created_at
    /\ recommendations[2].stock_id # recommendations[3].stock_id

\* ------------------------------------------------------------------------
\* Properties of calculate_risk_level (SpecRisk, SpecLoop)
\* ------------------------------------------------------------------------
\* the confidence a/b lies in [0, 1]
ConfidenceInRange(c) == 0 <= c[1] /\ c[1] <= c[2]

\* the market indicator in hundredths: 0.5 when not supplied, else clamped
MarketIndicator(mc) ==
    IF mc = None THEN 50
    ELSE IF mc[1] < 0 THEN 0 ELSE IF mc[1] > 100 THEN 100 ELSE mc[1]

C12_OutOfRangeConfidence ==
    /\ pc # "raised"
    /\ pc = "done" => pos = 3
    /\ (/\ pc = "scoring"
        /\ ~IsNone(risk_args)
        /\ ~ConfidenceInRange(Get(risk_args).ml_confidence)) =>
            /\ Get(risk_result) = "medium"
            /\ scoring.outcome \in {"candidate", "failed"}
            /\ scoring.outcome = "failed" <=> scoring.input.expl_raises
            /\ scoring.outcome = "candidate" =>
                 LET last == candidates[Len(candidates)]
                 IN  /\ last.stock_id = scoring.stock_id
                     /\ last.confidence = Get(risk_args).ml_confidence
                     /\ last.risk_level = "medium"

\* a finished run that recommends both entities: the one with the reported
\* confidence 1.5, at risk MEDIUM, and the one with confidence 0.7
C12_Witness ==
    /\ pc = "done"
    /\ Len(returned) = 2
    /\ returned[1].confidence_score = << 3, 2 >>
    /\ returned[1].risk_level = "medium"
    /\ returned[2].confidence_score = << 7, 10 >>
    /\ returned[2].risk_level = "low"
    /\ Len(recommendations) = 3

\* ------------------------------------------------------------------------
\* Properties of prepare_feature_vectors (SpecFeatures)
\* ------------------------------------------------------------------------
\* the market observations of the call that belong to entity e, in time order
ObservationsOf(e) == RowsOfStock(Get(features_args).market_data, e)

\* the entities of the call in the order they first appear in market_data
EntitiesOfCall == UniqueStockIds(Get(features_args).market_data)

RECURSIVE EmittingObservations(_)
\* the observations of the entities with two or more observations, entity
\* by entity in the order ids
EmittingObservations(ids) ==
    IF ids = << >> THEN << >>
    ELSE EmittingObservations(SubSeq(ids, 1, Len(ids) - 1))
         \o (IF Len(ObservationsOf(ids[Len(ids)])) >= 2
             THEN ObservationsOf(ids[Len(ids)]) ELSE << >>)

\* the unnormalised feature rows of the call
RawRowsOfCall ==
    CollectFeatureRows(Get(features_args).market_data, Get(features_args).sentiment_data,
                       EntitiesOfCall)

\* column c holds one value in every row of raw
ConstantColumn(raw, c) == \A i \in 1..Len(raw) : raw[i][c] = raw[1][c]

\* every vector has 9 components, each a fraction in [0, 1]
VectorsWellFormed ==
    \A i \in 1..Len(Get(features_result)) :
        /\ Len(Get(features_result)[i]) = 9
        /\ \A c \in 1..9 :
              LET x == Get(features_result)[i][c]
              IN  x[2] > 0 /\ 0 <= x[1] /\ x[1] <= x[2]

\* C13 as stated: every vector has exactly 9 components in [0, 1], and a
\* column that is constant across the batch is set to 0.5.
C13_Original ==
    ~IsNone(features_result) =>
        /\ VectorsWellFormed
        /\ \A raw \in {RawRowsOfCall} :
              \A c \in 1..9 :
                  ConstantColumn(raw, c) =>
                      \A i \in 1..Len(Get(features_result)) :
                          Get(features_result)[i][c] = << 1, 2 >>

\* C13 (amended): every vector has exactly 9 components in [0, 1]; a
\* min-max scaled column (the seven price and volume columns and the
\* sentiment trend) that is constant across the batch is set to 0.5; the
\* sentiment score column is (x + 1) / 2 of the raw score, constant or not.
C13_VectorsInUnitRange ==
    ~IsNone(features_result) =>
        /\ VectorsWellFormed
        /\ \A raw \in {RawRowsOfCall} :
              /\ Len(Get(features_result)) = Len(raw)
              /\ \A c \in (1..9) \ {8} :
                    ConstantColumn(raw, c) =>
                        \A i \in 1..Len(Get(features_result)) :
                            Get(features_result)[i][c] = << 1, 2 >>
              /\ \A i \in 1..Len(Get(features_result)) :
                    LET x == Get(features_result)[i][8]
                    IN  2 * x[1] * raw[i][8][2] = (raw[i][8][1] + raw[i][8][2]) * x[2]

\* two observations of s1 with the same price and volume and a sentiment of
\* 0.4 on the first day: the price column is constant and reads 0.5, the
\* sentiment score column is constant and reads 0.7
C13_Witness ==
    /\ ~IsNone(features_result)
    /\ Get(features_args).market_data
           = << MarketObs("s1", 11, 2, 1), MarketObs("s1", 12, 2, 1) >>
    /\ Get(features_args).sentiment_data = << SentimentObs("s1", 11, 40) >>
    /\ Len(Get(features_result)) = 2
    /\ \A i \in 1..2 : /\ Get(features_result)[i][1] = << 1, 2 >>
                       /\ Get(features_result)[i][8] = << 7, 10 >>

\* the price column of the vectors, scaled from the prices of obs
ScaledPrice(obs, k) ==
    LET prices == {obs[i].price : i \in 1..Len(obs)}
        lo == CHOOSE x \in prices : \A y \in prices : x <= y
        hi == CHOOSE x \in prices : \A y \in prices : x >= y
    IN  IF hi = lo THEN << 1, 2 >> ELSE Frac(obs[k].price - lo, hi - lo)

\* C14 as stated: an entity with n >= 2 observations gets one vector per
\* observation index >= 1 only (n - 1 vectors); its first observation is
\* skipped.
C14_Original ==
    ~IsNone(features_result) =>
        LET counts == [k \in 1..Len(EntitiesOfCall) |->
                          IF Len(ObservationsOf(EntitiesOfCall[k])) >= 2
                          THEN Len(ObservationsOf(EntitiesOfCall[k])) - 1 ELSE 0]
        IN  Len(Get(features_result)) = SumOf(counts, Len(counts))

\* C14 (amended): an entity with n >= 2 observations gets one vector per
\* observation, the first included (n vectors), in time order; the vectors
\* of the entities follow each other in the order the entities first appear.
C14_OneVectorPerObservation ==
    ~IsNone(features_result) =>
        \A obs \in {EmittingObservations(EntitiesOfCall)} :
            /\ Len(Get(features_result)) = Len(obs)
            /\ \A k \in 1..Len(obs) : Get(features_result)[k][1] = ScaledPrice(obs, k)

\* three observations of s1 with the prices 1, 2, 1 give three vectors whose
\* price components are 0, 1, 0: the first observation has its vector
C14_Witness ==
    /\ ~IsNone(features_result)
    /\ Get(features_args).market_data
           = << MarketObs("s1", 11, 1, 1), MarketObs("s1", 12, 2, 1),
                MarketObs("s1", 13, 1, 1) >>
    /\ Len(Get(features_result)) = 3
    /\ Get(features_result)[1][1] = Zero
    /\ Get(features_result)[2][1] = One
    /\ Get(features_result)[3][1] = Zero

\* the market rows of the call without those of the entities that have
\* exactly one observation
WithoutSingles ==
    SelectSeq(Get(features_args).market_data,
              LAMBDA r : Len(ObservationsOf(r.stock_id)) # 1)

\* C15: an entity with exactly one market observation contributes no
\* vector, whatever other entities are in the batch: the output is the one
\* of the batch without that entity; empty market data gives an empty
\* output.
C15_SingleObservationNoVector ==
    ~IsNone(features_result) =>
        /\ Get(features_args).market_data = << >> => Get(features_result) = << >>
        /\ (\A k \in 1..Len(EntitiesOfCall) : Len(ObservationsOf(EntitiesOfCall[k])) = 1)
               => Get(features_result) = << >>
        /\ Get(features_result)
               = PrepareFeatureVectors(WithoutSingles, Get(features_args).sentiment_data)

\* s1 has a single observation, at the highest price of the batch, and s2
\* has two: only the two vectors of s2 come out, scaled by the prices of s2
C15_Witness ==
    /\ ~IsNone(features_result)
    /\ Get(features_args).market_data
           = << MarketObs("s1", 11, 2, 1), MarketObs("s2", 11, 1, 1),
                MarketObs("s2", 12, 2, 1) >>
    /\ Len(Get(features_result)) = 2
    /\ Get(features_result)[1][1] = Zero
    /\ Get(features_result)[2][1] = One

\* the least distance in days from day t to a sentiment observation in sent
NearestGap(sent, t) ==
    CHOOSE g \in {Abs(sent[i].timestamp - t) : i \in 1..Len(sent)} :
        \A i \in 1..Len(sent) : g <= Abs(sent[i].timestamp - t)

\* C16 as stated: the sentiment of a market observation is the one of the
\* nearest sentiment observation, and is unknown (raw score 0.0, that is
\* 0.5 after the mapping) only when the gap exceeds 7 days; a gap of exactly
\* 7 days still uses the sentiment value.
C16_Original ==
    ~IsNone(features_result) =>
        \A obs \in {EmittingObservations(EntitiesOfCall)} :
            \A k \in 1..Len(obs) :
              \A sent \in {RowsOfStock(Get(features_args).sentiment_data, obs[k].stock_id)} :
                  LET x == Get(features_result)[k][8]
                  IN  /\ (sent = << >> \/ NearestGap(sent, obs[k].timestamp) > 7)
                             => x = << 1, 2 >>
                      /\ (sent # << >> /\ NearestGap(sent, obs[k].timestamp) <= 7)
                             => \E i \in 1..Len(sent) :
                                   /\ Abs(sent[i].timestamp - obs[k].timestamp)
                                          = NearestGap(sent, obs[k].timestamp)
                                   /\ x = Frac(sent[i].sentiment_score + 100, 200)

\* ------------------------------------------------------------------------
\* Properties of _generate_labels (SpecLabels)
\* ------------------------------------------------------------------------
\* the observations passed to the call, as a set
LabelledObservations ==
    {Get(labels_args).market_data[i] : i \in 1..Len(Get(labels_args).market_data)}

\* the place of observation o in the result: entities in the order of their
\* ids, the observations of one entity in time order
LabelIndex(o) ==
    1 + Cardinality({p \in LabelledObservations :
                        \/ StockIdRank(p.stock_id) < StockIdRank(o.stock_id)
                        \/ p.stock_id = o.stock_id /\ p.timestamp < o.timestamp})

\* the later observations of o's entity no more than days after o
LaterInWindow(o, days) ==
    {p \in LabelledObservations : /\ p.stock_id = o.stock_id
                                  /\ p.timestamp > o.timestamp
                                  /\ p.timestamp - o.timestamp <= days}

\* the label the rule gives o for a window and two thresholds (hundredths)
RuleLabel(o, days, buy, sell) ==
    IF LaterInWindow(o, days) = {} THEN 0
    ELSE LET far == CHOOSE p \in LaterInWindow(o, days) :
                        \A q \in LaterInWindow(o, days) : q.timestamp <= p.timestamp
         IN  IF (far.price - o.price) * 100 >= buy * o.price THEN 1
             ELSE IF (far.price - o.price) * 100 <= sell * o.price THEN 2
             ELSE 0

\* C17: _generate_labels returns one label in {0, 1, 2} per observation; the
\* label of an observation is 1 when the relative price change to the most
\* distant later observation of its entity within future_days is at least
\* buy_threshold, 2 when it is at most sell_threshold, 0 otherwise, and 0
\* when no later observation lies in the window.
C17_LabelsFollowFuturePrice ==
    ~IsNone(labels_result) =>
        \A a \in {Get(labels_args)} :
          \A days \in {IF IsNone(a.future_days) THEN 7 ELSE Get(a.future_days)},
             buy \in {IF IsNone(a.buy_threshold) THEN 5 ELSE Get(a.buy_threshold)},
             sell \in {IF IsNone(a.sell_threshold) THEN -5 ELSE Get(a.sell_threshold)} :
              /\ Len(Get(labels_result)) = Len(a.market_data)
              /\ \A k \in 1..Len(Get(labels_result)) : Get(labels_result)[k] \in {0, 1, 2}
              /\ \A o \in LabelledObservations :
                     Get(labels_result)[LabelIndex(o)] = RuleLabel(o, days, buy, sell)

\* 100, then 105 seven days later, then 95 the day after, with the settings'
\* window and thresholds: buy at exactly +5% at the edge of the window, sell,
\* and hold for the last observation
C17_Witness ==
    /\ ~IsNone(labels_result)
    /\ Get(labels_args).market_data
           = << MarketObs("s1", 18, 95, 1), MarketObs("s1", 17, 105, 1),
                MarketObs("s1", 10, 100, 1) >>
    /\ IsNone(Get(labels_args).future_days)
    /\ Get(labels_result) = << 1, 2, 0 >>

\* ------------------------------------------------------------------------
\* Properties of the model artifacts (SpecStorage)
\* ------------------------------------------------------------------------
\* the versions save_model was called with for a type
SavedFor(model_type) == {p[2] : p \in {q \in saved_versions : q[1] = model_type}}

\* C18: after any sequence of save_model calls get_latest_model_version of a
\* type returns the lexicographically greatest version saved for that type,
\* whatever was saved for the other type, and None when nothing was saved
\* for the type or the directory does not exist.
C18_LatestIsGreatestSaved ==
    (~IsNone(latest_result) /\ ~tampered) =>
        \A mine \in {SavedFor(Get(latest_args))} :
            IF mine = {} THEN IsNone(Get(latest_result))
            ELSE /\ ~IsNone(Get(latest_result))
                 /\ Get(Get(latest_result)) \in mine
                 /\ \A w \in mine : ~StrLess(Get(Get(latest_result)), w)

\* with v9.0 saved for the network and 1_2 for the forest, the latest
\* version of the forest is 1_2
C18_Witness ==
    /\ saved_versions = {<< "neural_network", << "v", "9", ".", "0" >> >>,
                         << "random_forest", << "1", "_", "2" >> >>}
    /\ latest_args = Some("random_forest")
    /\ latest_result = Some(Some(<< "1", "_", "2" >>))

\* the version a load_model call addresses: the one given, else the latest
AddressedVersion ==
    IF IsNone(Get(load_args).version)
    THEN GetLatestModelVersion(model_storage, Get(load_args).model_type)
    ELSE Get(load_args).version

ModelFilePresent ==
    /\ ~IsNone(model_storage)
    /\ ~IsNone(AddressedVersion)
    /\ PathExists(Get(model_storage),
                  ModelPath(Get(load_args).model_type, Get(AddressedVersion)))

MetadataFilePresent ==
    /\ ~IsNone(model_storage)
    /\ ~IsNone(AddressedVersion)
    /\ PathExists(Get(model_storage),
                  MetadataPath(Get(load_args).model_type, Get(AddressedVersion)))

AddressedModel ==
    ReadFile(Get(model_storage), ModelPath(Get(load_args).model_type, Get(AddressedVersion)))

AddressedMetadata ==
    ReadFile(Get(model_storage),
             MetadataPath(Get(load_args).model_type, Get(AddressedVersion)))

\* the fields the metadata document of a type is said to need
RequiredFields(model_type) ==
    {"model_type", "version", "training_date"} \cup ArchitectureFields(model_type)

\* C19 as stated: load_model fails with the not-found condition
\* (FileNotFoundError) when the directory, the model file or the metadata
\* file is absent, and with another, corrupt, condition when the model file
\* does not deserialize or the metadata document lacks one of model_type,
\* version, training_date and the architecture fields of the type.
C19_Original ==
    ~IsNone(load_result) =>
        /\ ~(ModelFilePresent /\ MetadataFilePresent)
               => Get(load_result).error = "FileNotFoundError"
        /\ (/\ ModelFilePresent
            /\ MetadataFilePresent
            /\ \/ ~AddressedModel.intact
               \/ /\ AddressedMetadata.parses
                  /\ ~(RequiredFields(Get(load_args).model_type)
                           \subseteq AddressedMetadata.fields))
               => /\ ~Get(load_result).ok
                  /\ Get(load_result).error # "FileNotFoundError"

\* C19 (amended): load_model raises FileNotFoundError when the directory is
\* absent, or the model file or the metadata file of the version is absent;
\* with the version left out and no model file of the type in the directory
\* it raises ValueError.  With both files there, it raises ValueError when
\* the metadata of a neural network parses and lacks one of input_size,
\* hidden_size1, hidden_size2, num_classes, and otherwise RuntimeError when
\* the model file does not deserialize or the metadata is not JSON.  Any
\* other document is accepted: one without model_type, version or
\* training_date, and for the random forest one without n_estimators or
\* max_depth, loads and is returned as it is.
C19_LoadModelConditions ==
    ~IsNone(load_result) =>
        \A r \in {Get(load_result)}, model_type \in {Get(load_args).model_type} :
            IF IsNone(model_storage) THEN r.error = "FileNotFoundError"
            ELSE IF IsNone(AddressedVersion) THEN r.error = "ValueError"
            ELSE IF ~(ModelFilePresent /\ MetadataFilePresent)
                 THEN r.error = "FileNotFoundError"
            ELSE IF /\ model_type = "neural_network"
                    /\ AddressedMetadata.parses
                    /\ ~(ArchitectureFields(model_type) \subseteq AddressedMetadata.fields)
                 THEN r.error = "ValueError"
            ELSE IF ~AddressedModel.intact \/ ~AddressedMetadata.parses
                 THEN r.error = "RuntimeError"
            ELSE /\ r.ok
                 /\ r.model = AddressedModel.model
                 /\ r.metadata = AddressedMetadata

\* the metadata of the network v1 has lost num_classes: ValueError
C19_Witness ==
    /\ load_args = Some([model_type |-> "neural_network", version |-> Some(<< "v", "1" >>)])
    /\ ModelFilePresent
    /\ MetadataFilePresent
    /\ AddressedMetadata.parses
    /\ "num_classes" \notin AddressedMetadata.fields
    /\ ~Get(load_result).ok
    /\ Get(load_result).error = "ValueError"

\* the module globals of a type: the cached model and its metadata
CachedModel(model_type) ==
    IF model_type = "neural_network" THEN neural_network_model ELSE random_forest_model

CachedMetadata(model_type) ==
    IF model_type = "neural_network" THEN neural_network_metadata ELSE random_forest_metadata

PrimaryElseSecondary(primary, secondary) ==
    IF primary # None THEN primary ELSE secondary

SecondaryEntry(key) ==
    IF app_state_models = None THEN None
    ELSE IF key = "neural_network" THEN app_state_models[1].neural_network
    ELSE app_state_models[1].random_forest

\* C21: a model accessor returns the module global whenever it is set,
\* whatever app.state holds; the model of app.state only when the global is
\* empty; None when both are empty or app.state.models is unset.
\* are_models_loaded is true exactly when one of the two returns a model.
C21_AccessorsPreferModuleCache ==
    accessor_result # None =>
        /\ accessor_result[1].neural_network
               = PrimaryElseSecondary(neural_network_model, SecondaryEntry("neural_network"))
        /\ accessor_result[1].random_forest
               = PrimaryElseSecondary(random_forest_model, SecondaryEntry("random_forest"))
        /\ accessor_result[1].are_models_loaded
               = (\/ accessor_result[1].neural_network # None
                  \/ accessor_result[1].random_forest # None)

\* the module holds the network v1 and app.state the network v2 and the
\* forest v2: the accessors return the network v1 and the forest v2
C21_Witness ==
    /\ accessor_result # None
    /\ neural_network_model = << "v1" >>
    /\ random_forest_model = None
    /\ app_state_models # None
    /\ app_state_models[1].neural_network = << "v2" >>
    /\ accessor_result[1].neural_network = << "v1" >>
    /\ accessor_result[1].random_forest = << "v2" >>
    /\ accessor_result[1].are_models_loaded

\* ------------------------------------------------------------------------
\* Properties of the training runs (SpecTraining)
\* ------------------------------------------------------------------------
\* C22 as stated: an artifact is immutable once saved -- no step replaces
\* the content stored under an existing (model_type, version), and a
\* training run stores its artifacts under a version that did not exist
\* before: every file of the directory is still there, unchanged, after
\* every step.
C22_Original ==
    [][model_storage # None =>
           /\ model_storage' # None
           /\ \A f \in model_storage[1] : f \in model_storage'[1]]_vars

\* ------------------------------------------------------------------------
\* Properties of the failures of predict_stock (SpecPredict)
\* ------------------------------------------------------------------------
\* pytest.raises(cls, match=phrase) accepts the failure of the last call
RaisedAs(cls, phrase) ==
    /\ ~Get(predict_result).ok
    /\ cls \in ExceptionBases(Get(predict_result).error)
    /\ phrase \in ErrorPhrases(Get(predict_result).error)

\* C23 as stated: predict_stock raises a ValueError holding 'No market data
\* found' when market_data is omitted and the entity has no stored
\* observation, and a RuntimeError holding 'No models loaded' when features
\* can be built and neither cache holds a model.
C23_Original ==
    ~IsNone(predict_result) =>
        /\ ~Get(predict_args).has_latest => RaisedAs("ValueError", "No market data found")
        /\ (/\ Get(predict_args).has_latest
            /\ Get(predict_args).hist_len >= 2
            /\ ~AreModelsLoaded) => RaisedAs("RuntimeError", "No models loaded")

\* C24 as stated: when the history query returns no market observation,
\* predict_stock takes the current data point as its only history and still
\* returns a prediction (the models being loaded and able to infer).
C24_Original ==
    (/\ ~IsNone(predict_result)
     /\ Get(predict_args).has_latest
     /\ Get(predict_args).hist_len = 0
     /\ ~IsNone(GetNeuralNetworkModel)
     /\ ~IsNone(GetRandomForestModel)
     /\ ~IsNone(Get(predict_args).nn_out)
     /\ ~IsNone(Get(predict_args).rf_out)) => Get(predict_result).ok

\* C29: in the ensemble step, whenever both models predict the same class k
\* the ensemble class is k, for every pair of probability vectors and every
\* pair of weights, the zero-total-weight fallback included.
C29_EnsembleKeepsAgreedClass ==
    EnsembleUsed =>
        LET r == Get(predict_result)
            nn == r.neural_network_prediction[1]
            rf == r.random_forest_prediction[1]
        IN  nn.class = rf.class => r.signal = ClassToSignal(nn.class)

\* both models predict buy from different probability vectors, one tied
\* between two classes, and carry positive weights
C29_Witness ==
    /\ EnsembleUsed
    /\ LET r == Get(predict_result)
           nn == r.neural_network_prediction[1]
           rf == r.random_forest_prediction[1]
       IN  /\ nn.class = 1
           /\ rf.class = 1
           /\ nn.probabilities = << 0, ProbDen - 2, 2 >>
           /\ rf.probabilities = << 1, ProbDen - 2, 1 >>
           /\ FracLT(Zero, rf.confidence_score)
           /\ r.signal = "buy"

\* C30 as stated: a candidate of generate_recommendations is explained with
\* 'limited sentiment data' only if the entity has no aggregated sentiment
\* (the query answered None, or failed); an entity whose aggregated
\* sentiment exists, 0.0 included, is described by the bucket of its score:
\* favorable above +0.1, unfavorable below -0.1, else neutral.
C30_Original ==
    (pc = "scoring" /\ scoring.outcome = "candidate") =>
        LET in == scoring.input
            desc == candidates[Len(candidates)].explanation.sentiment_desc
        IN  /\ candidates[Len(candidates)].stock_id = scoring.stock_id
            /\ desc = "limited sentiment data" => (in.agg_raises \/ IsNone(in.agg))
            /\ (~in.agg_raises /\ ~IsNone(in.agg)) =>
                   desc = (IF Get(in.agg) > 10 THEN "favorable market sentiment"
                           ELSE IF Get(in.agg) < -10 THEN "unfavorable market sentiment"
                           ELSE "neutral market sentiment")

\* C25 as stated: after the length check and truncation of train_models the
\* i-th label and the i-th feature vector are of the same (entity,
\* observation), for every training set, those with an entity of a single
\* observation and those not ordered by entity id included.
C25_Original ==
    ~IsNone(training_set) =>
        \A i \in 1..Len(Get(training_set).pairs) :
            Get(training_set).pairs[i].x = Get(training_set).pairs[i].y

\* the versions of model_type of which the directory holds both files
CompleteVersions(dir, model_type) ==
    IF IsNone(dir) THEN {}
    ELSE {v \in Versions : /\ PathExists(Get(dir), ModelPath(model_type, v))
                           /\ PathExists(Get(dir), MetadataPath(model_type, v))}

\* C27 as stated: in every state reached by interleaving the steps of
\* save_model with loads, if the directory holds a complete artifact (model
\* file and metadata file) of a type, load_model with the version left out
\* succeeds for that type, also while a greater version has its model file
\* and not yet its metadata file.
C27_Original ==
    (/\ ~IsNone(load_args)
     /\ IsNone(Get(load_args).version)
     /\ CompleteVersions(model_storage, Get(load_args).model_type) # {})
        => Get(load_result).ok

\* the in-process cache and the reported status agree for a type
StatusAgreesWithCache(status, model) ==
    /\ status.loaded <=> ~IsNone(model)
    /\ status.loaded => status.version = model

\* C26 as stated: after every call of initialize_models, a second or later
\* call made after artifacts were removed or damaged included, the reported
\* status agrees with the in-process cache: loaded is true exactly when the
\* cache holds a model of the type, and the reported version is the version
\* of the cached model.
C26_Original ==
    ~IsNone(initialize_result) =>
        /\ StatusAgreesWithCache(Get(initialize_result).neural_network, neural_network_model)
        /\ StatusAgreesWithCache(Get(initialize_result).random_forest, random_forest_model)

\* the metadata accessor answered with the metadata of the artifact the
\* model accessor answered with (a loaded model is known by its version)
SameArtifact(model, metadata) ==
    ~IsNone(model) => (~IsNone(metadata) /\ Get(metadata).version = Get(model))

\* C28 as stated: at every point during and after the loading at startup,
\* whenever the model accessor of a type returns a model, the metadata
\* accessor of the type returns the metadata of that same artifact, never
\* None and never the metadata of another version.
C28_Original ==
    ~IsNone(accessor_result) =>
        /\ SameArtifact(Get(accessor_result).neural_network,
                        Get(accessor_result).neural_network_metadata)
        /\ SameArtifact(Get(accessor_result).random_forest,
                        Get(accessor_result).random_forest_metadata)

====
